---- MODULE Spec2Model ----
(***************************************************************************)
(* Model of the LyarisClient excavation engine (MiningEngine), its         *)
(* persistence (StateManager) and the traversal planner                    *)
(* (generateZigzagPositions), all in src/src/mining/state-manager.ts.      *)
(*                                                                         *)
(* JavaScript runs one continuation at a time: an async function runs      *)
(* without interruption from one `await` to the next.  Every action of     *)
(* the engine model is therefore either a whole synchronous handler        *)
(* (pause, resume, stop), the synchronous head of an async call up to its  *)
(* first await (start, resumeIfNeeded, goToBase), or the resumption of a   *)
(* suspended run loop from one await up to the next await or its exit.     *)
(* Values the loop reads from the world (health, inventory, blocks,        *)
(* telemetry, outcome of an awaited operation) are inputs of the step.     *)
(***************************************************************************)
EXTENDS Integers, Sequences, FiniteSets, TLC

\* ------------------------------------------------------------------ bounds

\* Coordinates of the regions given to the planner are drawn from 0..MaxCoord.
MaxCoord == 2

\* Number of start() invocations that may be pending at one time under Spec;
\* SpecOverlap admits one more.
MaxRuns == 1

\* The clock is followed for this many seconds after the bot was constructed.
MaxClockSteps == 3

\* Consecutive suffocation ticks that are counted.
MaxStuckTicks == 5

\* Recovery activities that can be pending at once.
MaxActivities == 2

\* Navigator operations whose closures and callbacks are followed at once.
MaxNavOps == 2

\* Dig races whose closures and callbacks are followed at once.
MaxDigOps == 2

\* Stall callbacks followed where the position history is kept.
MaxStallCalls == 4

\* Waits of four seconds between stall callbacks.
MaxStallWaits == 2

\* safeDig calls followed in one recovery routine or targeted clear.
MaxRoutineDigs == 2

\* Date.now() when the bot is constructed, in ms.
Epoch == 10000

\* ------------------------------------------------------- program constants

maxAttempts == 3
SAVE_EVERY == 50
HEAL_BELOW == 14
healToThreshold == 18
MAX_RECOVERY_LEVEL == 5
SAFE_POSITIONS_KEEP == 15
SAFE_SAVE_INTERVAL == 5000
POSITION_HISTORY_SIZE == 30
LOOP_COUNT == 4
\* LOOP_RADIUS, 2.5 blocks, in tenths of a block
LOOP_RADIUS == 25

\* ------------------------------------------------------------- geometry

Vec3(x, y, z) == [x |-> x, y |-> y, z |-> z]

Min(a, b) == IF a <= b THEN a ELSE b
Max(a, b) == IF a >= b THEN a ELSE b

Mk(c1, c2) == [corner1 |-> c1, corner2 |-> c2]

normalizeArea(area) ==
    [min |-> Vec3(Min(area.corner1.x, area.corner2.x),
                  Min(area.corner1.y, area.corner2.y),
                  Min(area.corner1.z, area.corner2.z)),
     max |-> Vec3(Max(area.corner1.x, area.corner2.x),
                  Max(area.corner1.y, area.corner2.y),
                  Max(area.corner1.z, area.corner2.z))]

areaSize(area) ==
    (area.max.x - area.min.x + 1) *
    (area.max.y - area.min.y + 1) *
    (area.max.z - area.min.z + 1)

\* ------------------------------------------------------ traversal planner

\* Each loop of generateZigzagPositions is an operator that returns what the
\* loop pushes onto `positions` from the given value of its counter onwards.

\* for (let x = area.min.x; x <= area.max.x; x++) positions.push(new Vec3(x, y, z))
RECURSIVE XLoopUp(_, _, _, _)
XLoopUp(x, area, y, z) ==
    IF x <= area.max.x
    THEN <<Vec3(x, y, z)>> \o XLoopUp(x + 1, area, y, z)
    ELSE <<>>

\* Mutant: the descending scan stops one short of area.min.x.
RECURSIVE XLoopDownShort(_, _, _, _)
XLoopDownShort(x, area, y, z) ==
    IF x > area.min.x
    THEN <<Vec3(x, y, z)>> \o XLoopDownShort(x - 1, area, y, z)
    ELSE <<>>

\* for (let x = area.max.x; x >= area.min.x; x--) positions.push(new Vec3(x, y, z))
RECURSIVE XLoopDown(_, _, _, _)
XLoopDown(x, area, y, z) ==
    IF x >= area.min.x
    THEN <<Vec3(x, y, z)>> \o XLoopDown(x - 1, area, y, z)
    ELSE <<>>

\* for (let z = area.min.z; z <= area.max.z; z++) { ...; reverseX = !reverseX }
RECURSIVE ZLoop(_, _, _, _)
ZLoop(z, reverseX, area, y) ==
    IF z <= area.max.z
    THEN (IF reverseX
          THEN XLoopDown(area.max.x, area, y, z)
          ELSE XLoopUp(area.min.x, area, y, z))
         \o ZLoop(z + 1, ~reverseX, area, y)
    ELSE <<>>

\* Mutant: reverseX is carried from one layer to the next instead of being
\* reset to false at the top of every layer.
RECURSIVE YLoopCarry(_, _, _)
YLoopCarry(y, reverseX, area) ==
    IF y >= area.min.y
    THEN ZLoop(area.min.z, reverseX, area, y)
         \o YLoopCarry(y - 1,
                       IF (area.max.z - area.min.z + 1) % 2 = 1
                       THEN ~reverseX ELSE reverseX,
                       area)
    ELSE <<>>

generateZigzagPositionsCarry(area) == YLoopCarry(area.max.y, FALSE, area)

\* for (let y = area.max.y; y >= area.min.y; y--) { let reverseX = false; ... }
RECURSIVE YLoop(_, _)
YLoop(y, area) ==
    IF y >= area.min.y
    THEN ZLoop(area.min.z, FALSE, area, y) \o YLoop(y - 1, area)
    ELSE <<>>

generateZigzagPositions(area) == YLoop(area.max.y, area)

\* ------------------------------------------------------------------ state

VARIABLES
    state,        \* MiningEngine.state: status, area, totalBlocks, minedBlocks, error
    file,         \* contents of mining_state.json (StateManager), or NoFile
    runs,         \* pending start() invocations: the locals of start/mineArea/mineBlock
    travel,       \* position of the pending goToBase() invocation, with the
                  \* history of a stop() call during it
    antiStuck,    \* AntiStuck.active
    movements,    \* pathfinder movements set by the Navigator
    resumeDue,    \* the boot timer that calls resumeIfNeeded() has not fired yet
    stopCalled,   \* history: stop() was the last of start()/goToBase()/stop() called
    pauseCalled,  \* history: pause() was called during a run, no resume()/stop() since
    out,          \* what the last step published on the event bus or threw to its caller,
                  \* with marks of the answers and calls that are followed
    world,        \* the setting: what the bot's surroundings can answer when asked
    pArea,        \* planner check: the region given
    pOut,         \* planner check: the sequence returned
    recovery,     \* AntiStuck: _recovering, recoveryLevel, lastRecoveryTime, ...
    activities,   \* AntiStuck: pending triggerRecovery / clearBlockingPath calls
    clock,        \* Date.now()
    lastTrigger,  \* history: the last triggerRecovery() call and what became of it
    timings,      \* the AdaptiveTimings getters as they were last read
    nav,          \* Navigator.gotoWithTimeout invocations: closures, timers, controls
    digs,         \* dig races (mineBlock, safeDig) and the confirmation wait
    watch         \* AntiStuck: listeners, physics, position history and safe
                  \* positions, with the history of the monitors; followed in the
                  \* settings that trace them

vars == <<state, file, runs, travel, antiStuck, movements, resumeDue, stopCalled,
          pauseCalled, out, world, pArea, pOut,
          recovery, activities, clock, lastTrigger, timings, nav, digs, watch>>

engineVars == <<state, file, runs, travel, antiStuck, movements, resumeDue, stopCalled,
                pauseCalled, out>>
\* The engine's own variables: all but AntiStuck.active and the outputs.
engineOnly == <<state, file, runs, travel, movements, resumeDue, stopCalled,
                pauseCalled>>
\* The components that are also checked on their own.
partVars == <<timings, nav, digs, watch>>
\* The setting, the planner and the components checked on their own.
plannerVars == <<world, pArea, pOut, partVars>>
recoveryVars == <<recovery, activities, clock, lastTrigger>>

Runs == 1..MaxRuns
OverlapRuns == 1..(MaxRuns + 1)

\* null, for a position, a region and the file (no integer point, no record).
NoPos == Vec3(-1, -1, -1)
NoArea == [min |-> Vec3(0, 0, 0), max |-> NoPos]
NoFile == [area |-> NoArea, minedBlocks |-> -1]

Statuses == {"idle", "mining", "paused", "traveling", "finished", "error"}

\* Values of bot.health read by the run loop: below 14, between 14 and the
\* healing threshold, and at or above it.
Healths == {10, 16, 20}

\* Regions the control API is asked to excavate (corners in no order): four
\* blocks under Spec, two blocks under SpecOverlap.
EngineAreas == { Mk(Vec3(1, 0, 1), Vec3(0, 0, 0)) }
OverlapAreas == { Mk(Vec3(1, 0, 0), Vec3(0, 0, 0)) }

\* constructor
InitState ==
    [status |-> "idle", area |-> NoArea, totalBlocks |-> 0, minedBlocks |-> 0,
     error |-> "null"]

\* No pending invocation.  A pending one holds the parameters and locals of
\* start/mineArea/mineBlock: area, startIndex, i, oldStatus, pos, attempts;
\* iters counts the iterations of the attempt loop begun for the current
\* target.
NoRun ==
    [pc |-> "none", area |-> NoArea, startIndex |-> 0, i |-> 0, attempts |-> 0,
     iters |-> 0, oldStatus |-> "idle", pos |-> NoPos]

\* StateManager.save: the record written to the file
SavedMiningState(area, minedBlocks) ==
    [area |-> [min |-> area.min, max |-> area.max], minedBlocks |-> minedBlocks]

\* The histories out and pauseCalled are kept in the specifications whose
\* setting says so (world.audit); elsewhere they stay empty.
Recorded(outputs) == IF world.audit THEN outputs ELSE {}

\* The engine as one run-loop continuation sees and changes it.
World(l) ==
    [state |-> state, file |-> file, run |-> runs[l],
     antiStuck |-> antiStuck, movements |-> movements, out |-> {}]

Commit(l, w) ==
    /\ state' = w.state
    /\ file' = w.file
    /\ runs' = [runs EXCEPT ![l] = w.run]
    /\ antiStuck' = w.antiStuck
    /\ movements' = w.movements
    /\ out' = Recorded(w.out)

\* eventBus.emit(event)
Emit(w, event) == [w EXCEPT !.out = @ \cup {event}]

\* The run loop suspends at the await named pc.
At(w, pc) == [w EXCEPT !.run.pc = pc]

\* ------------------------------------------------ start(): after mineArea

\* start() lines 317-332: mineArea returned (thrown = FALSE) or threw; "catch"
\* in the outputs marks that the catch block of line 323 was entered.
ExitStart(w, thrown) ==
    LET w0 == IF thrown THEN Emit(w, "catch") ELSE w
        w1 == IF ~thrown
              THEN IF w.state.status = "mining"
                   THEN Emit([w EXCEPT !.state.status = "finished", !.file = NoFile],
                             "mining:finished")
                   ELSE w
              ELSE IF w0.state.status # "idle"
                   THEN Emit([w0 EXCEPT !.state.status = "error",
                                        !.state.error = "failure"],
                             "mining:error")
                   ELSE w0
    IN [w1 EXCEPT !.antiStuck = FALSE, !.run = NoRun]

\* ------------------------------------------------ mineArea: one iteration

\* lines 452-459: wait while paused, then `await eatIfNeeded`.
PauseHandling(w) ==
    IF w.state.status = "paused" THEN At(w, "pause_wait") ELSE At(w, "eat")

\* lines 443-449: the healing loop and what follows it.
HealLoop(w, health) ==
    IF health < healToThreshold
    THEN At(w, "heal_eat")
    ELSE PauseHandling([w EXCEPT
             !.state.status = IF w.run.oldStatus = "paused" THEN "paused" ELSE "mining",
             !.state.error = "null"])

\* lines 438-450
HealthCheck(w, health) ==
    IF health < HEAL_BELOW
    THEN HealLoop([w EXCEPT !.run.oldStatus = w.state.status,
                            !.state.status = "paused",
                            !.state.error = "Healing..."], health)
    ELSE PauseHandling(w)

\* lines 429-436: the auto-pause wait loop and what follows it.
AutoPauseWait(w, autoPause, health) ==
    IF autoPause /\ w.state.status = "paused"
    THEN At(w, "autopause_wait")
    ELSE HealthCheck(IF w.state.status = "paused"
                     THEN [w EXCEPT !.state.status = "mining", !.state.error = "null"]
                     ELSE w, health)

\* lines 423-436
AutoPause(w, autoPause, health) ==
    IF autoPause /\ w.state.status = "mining"
    THEN AutoPauseWait(Emit([w EXCEPT !.state.status = "paused",
                                      !.state.error = "Auto-paused: bad connection"],
                            "mining:paused high_ping"),
                       autoPause, health)
    ELSE HealthCheck(w, health)

\* lines 414-421: loop condition, stop check, periodic save.
IterHead(w, e) ==
    IF w.run.i >= Len(generateZigzagPositions(w.run.area)) THEN ExitStart(w, FALSE)
    ELSE IF w.state.status = "idle" THEN ExitStart(w, FALSE)
    ELSE IF w.run.i % SAVE_EVERY = 0
         THEN At([w EXCEPT !.file = SavedMiningState(w.run.area, w.state.minedBlocks)],
                 "save_yield")
         ELSE AutoPause(w, e.autoPause, e.health)

\* Mutant: the mined counter advances only when the target was not given up.
AfterMineBlockOnlyOnSuccess(w, e) ==
    LET w1 == IF w.run.attempts >= maxAttempts THEN w
              ELSE Emit([w EXCEPT !.state.minedBlocks = w.run.i + 1], "mining:progress")
    IN IF e.delay THEN At(w1, "inter_delay")
       ELSE IterHead([w1 EXCEPT !.run.i = w.run.i + 1], e)

\* lines 464-470: mineBlock returned.
AfterMineBlock(w, e) ==
    LET w1 == Emit([w EXCEPT !.state.minedBlocks = w.run.i + 1], "mining:progress")
    IN IF e.delay THEN At(w1, "inter_delay")
       ELSE IterHead([w1 EXCEPT !.run.i = w.run.i + 1], e)

\* ------------------------------------------------ mineBlock: one attempt

\* lines 477-481: attempt-loop condition, stop check, `await clearOverlapping`.
AttemptHead(w, e) ==
    IF w.run.attempts < maxAttempts
    THEN IF w.state.status = "idle" THEN AfterMineBlock(w, e)
         ELSE At([w EXCEPT !.run.iters = w.run.iters + 1], "clear_overlap")
    ELSE AfterMineBlock(w, e)

\* Mutant: a failed attempt is not counted.
FailAttemptUncounted(w) == At(w, "retry_sleep")

\* lines 567-570: catch { attempts++; await sleep(500) }
FailAttempt(w) == At([w EXCEPT !.run.attempts = w.run.attempts + 1], "retry_sleep")

\* lines 518-521: re-read the target, `await equipFor`.
TargetCheck(w, e, mineable) ==
    IF ~mineable THEN AfterMineBlock(w, e) ELSE At(w, "equip")

\* lines 508-516: distance needs bot.entity (a TypeError escapes mineBlock
\* when the entity is gone); navigate when out of reach or not visible.
Approach(w, e, entity, far, mineable) ==
    IF ~entity THEN ExitStart(w, TRUE)
    ELSE IF far THEN At(w, "nav")
    ELSE TargetCheck(w, e, mineable)

\* lines 496-504: the wait for inventory capacity, entered with status paused
\* or re-entered after a sleep.
InventoryWait(w, e, full, entity, far, mineable) ==
    LET w1 == IF ~full
              THEN [w EXCEPT !.state.status = "mining", !.state.error = "null"]
              ELSE w
    IN IF full /\ w1.state.status = "paused" THEN At(w1, "inv_wait")
       ELSE IF w1.state.status # "mining" THEN AfterMineBlock(w1, e)
       ELSE Approach(w1, e, entity, far, mineable)

\* ------------------------------------------------------------ telemetry

\* Latencies (pingMonitor.currentPing, ms) and tick rates (pingMonitor.tps).
Pings == {0, 200, 1000, 1001}
TickRates == {4, 5, 20}

\* Mutant: the latency is ignored.
shouldAutoPauseTpsOnly(ping, tps) == tps < 5

\* Mutant: a latency of exactly 1000 ms already triggers.
shouldAutoPauseInclusive(ping, tps) == ping >= 1000 \/ tps < 5

\* AdaptiveTimings.shouldAutoPause
shouldAutoPause(ping, tps) == ping > 1000 \/ tps < 5

\* Math.round(a / b) for a >= 0, b > 0: the nearest integer, halves upwards.
Round(a, b) == (2 * a + b) \div (2 * b)

\* Mutant: the dig timeout without its cap.
digTimeoutUncapped(ping, tps) ==
    Round((6000 + Max(0, ping * 2)) * 20, Max(1, tps))

\* AdaptiveTimings.digTimeout
digTimeout(ping, tps) ==
    Min(Round((6000 + Max(0, ping * 2)) * 20, Max(1, tps)), 30000)

\* AdaptiveTimings.pathfindTimeout
pathfindTimeout(ping) == Min(Round(8000 + ping * 3, 1), 30000)

\* AdaptiveTimings.navigationTimeout
navigationTimeout(ping) == Min(Round(180000 + ping * 10, 1), 300000)

\* AdaptiveTimings.postDigWaitTicks
postDigWaitTicks(ping) ==
    IF ping > 400 THEN 6 ELSE IF ping > 200 THEN 4 ELSE IF ping > 100 THEN 3 ELSE 2

\* AdaptiveTimings.safedigTimeout
safedigTimeout(ping) == Min(5000 + ping * 2, 15000)

\* Mutant: the wait with the default maxTicks of waitForBlockBreak.
getAdaptiveWaitTicksDefault(ping) == 4

\* PositionConfirmer.getAdaptiveWaitTicks
getAdaptiveWaitTicks(ping) ==
    IF ping > 400 THEN 6 ELSE IF ping > 200 THEN 4 ELSE IF ping > 100 THEN 3 ELSE 2

\* AdaptiveTimings.interBlockDelay: Math.round of (ping - 50) * 0.4, from 0
\* to 200.
interBlockDelay(ping) == Min(Max(0, (4 * (ping - 50) + 5) \div 10), 200)

\* AdaptiveTimings.speedMultiplier, in hundredths
speedMultiplier(ping) ==
    IF ping > 400 THEN 45 ELSE IF ping > 200 THEN 55 ELSE IF ping > 100 THEN 65 ELSE 80

\* AdaptiveTimings.stuckCheckInterval lines 85-87, in ms
stuckCheckInterval == 500

\* AdaptiveTimings.stallTimeThreshold
stallTimeThreshold(ping) == 3000 + ping * 2

\* AdaptiveTimings.recoveryCooldown
recoveryCooldown(ping) == 2000 + ping

\* AdaptiveTimings.stuckTicksThreshold
stuckTicksThreshold(ping) == IF ping > 300 THEN 5 ELSE IF ping > 150 THEN 4 ELSE 3

\* AdaptiveTimings.minRecoveryLevel
minRecoveryLevel(ping) == IF ping > 300 THEN 2 ELSE IF ping > 150 THEN 1 ELSE 0

\* ------------------------------------------------------ inputs of a step

\* What a step reads when it reaches the head of an iteration:
\* timings.shouldAutoPause, bot.health, timings.interBlockDelay > 0.
HeadInputs ==
    [autoPause : {shouldAutoPause(ping, tps) : ping \in world.ping, tps \in world.tps},
     health : world.health, delay : world.delay]

\* Any answer at all: bad connection, low health, full inventory, no chest,
\* the entity gone (disconnected), targets out of reach, digs that fail.  The
\* bot stands at one place in the air and is not teleported (pos, onGround,
\* rubber); positions are in tenths of a block along a line.
AnyWorld ==
    [ping |-> Pings, tps |-> TickRates, health |-> Healths, delay |-> BOOLEAN,
     mineable |-> BOOLEAN, full |-> BOOLEAN, freed |-> BOOLEAN,
     entity |-> BOOLEAN, far |-> BOOLEAN, reachable |-> BOOLEAN, dug |-> BOOLEAN,
     confirmed |-> BOOLEAN, base |-> TRUE, audit |-> FALSE,
     trace |-> FALSE, rubber |-> {FALSE}, onGround |-> {FALSE}, pos |-> {0}]

\* Good connection, full health, room in the inventory; targets may still be
\* out of reach, already gone, or fail to be dug.
CalmWorld ==
    [ping |-> {0}, tps |-> {20}, health |-> {20}, delay |-> BOOLEAN,
     mineable |-> BOOLEAN, full |-> {FALSE}, freed |-> {TRUE},
     entity |-> {TRUE}, far |-> BOOLEAN, reachable |-> BOOLEAN, dug |-> BOOLEAN,
     confirmed |-> BOOLEAN, base |-> TRUE, audit |-> TRUE,
     trace |-> FALSE, rubber |-> {FALSE}, onGround |-> {FALSE}, pos |-> {0}]

\* Any answer at all, with the outputs and the user's pause calls recorded.
AuditWorld == [AnyWorld EXCEPT !.audit = TRUE]

\* Any answer at all to the recovery subsystem, at three latencies.
RecoveryWorld == [AnyWorld EXCEPT !.audit = TRUE, !.ping = {0, 200, 1000}]

\* Any answer at all to the stall monitor at one latency, with its history
\* followed; the bot is at one of two places more than 0.15 apart.
StallWorld == [AnyWorld EXCEPT !.audit = TRUE, !.trace = TRUE, !.ping = {0},
                               !.pos = {0, 5}]

\* Any answer at all to the stall monitor at one latency, with its history
\* followed; the bot is at one of two places 2.5 apart.
LoopWorld == [StallWorld EXCEPT !.pos = {0, LOOP_RADIUS}]

\* Any answer at all to the tick monitor at one latency, with its history
\* followed; the bot is on the ground or not, at 0, 0.5 or 1 block.
CheckpointWorld == [AnyWorld EXCEPT !.audit = TRUE, !.trace = TRUE, !.ping = {0},
                                    !.onGround = BOOLEAN, !.pos = {0, 5, 10}]

\* Any answer at all to both monitors at two latencies, with their history
\* followed; the bot stands at one place in the air.
PairingWorld == [AnyWorld EXCEPT !.audit = TRUE, !.trace = TRUE, !.ping = {0, 500}]

\* Any answer at all to the tick monitor, with its history followed; the bot
\* is in the air, so no safe position is saved.
SuffocationWorld == [RecoveryWorld EXCEPT !.trace = TRUE]

\* Latencies with different dig timeouts, the second one capped for safeDig.
DigPings == {200, 5000}

\* Latencies around the thresholds of the confirm ticks.
ConfirmPings == {0, 100, 101, 200, 201, 400, 401}

\* Any answer at all to the Navigator, at one latency.
NavigatorWorld == [AnyWorld EXCEPT !.audit = TRUE, !.ping = {200}]

\* A calm world in which the telemetry has one value at a time.
LatencyWorlds ==
    { [CalmWorld EXCEPT !.ping = {ping}, !.tps = {tps},
                        !.delay = {interBlockDelay(ping) > 0}] :
        ping \in Pings, tps \in TickRates }

\* ------------------------------------------------------------- public API

\* Mutant: the run begins one past the index it was given.
StartBodySkip(w, area, startIndex, e) ==
    LET normalized == normalizeArea(area)
        w1 == [w EXCEPT !.state.status = "mining",
                        !.state.area = normalized,
                        !.state.minedBlocks = startIndex,
                        !.state.error = "null",
                        !.movements = "mining",
                        !.antiStuck = TRUE,
                        !.run = [NoRun EXCEPT !.pc = "entered", !.area = normalized,
                                              !.startIndex = startIndex,
                                              !.i = startIndex + 1]]
        w2 == Emit([w1 EXCEPT !.state.totalBlocks =
                                   Len(generateZigzagPositions(normalized))],
                   "mining:started")
    IN IterHead(w2, e)

\* start(area, startIndex) lines 298-316 and mineArea up to its first await.
StartBody(w, area, startIndex, e) ==
    LET normalized == normalizeArea(area)
        w1 == [w EXCEPT !.state.status = "mining",
                        !.state.area = normalized,
                        !.state.minedBlocks = startIndex,
                        !.state.error = "null",
                        !.movements = "mining",
                        !.antiStuck = TRUE,
                        !.run = [NoRun EXCEPT !.pc = "entered", !.area = normalized,
                                              !.startIndex = startIndex,
                                              !.i = startIndex]]
        w2 == Emit([w1 EXCEPT !.state.totalBlocks =
                                   Len(generateZigzagPositions(normalized))],
                   "mining:started")
    IN IterHead(w2, e)

\* Mutant: start() begins a run whatever the status.
StartUnguarded(l, area) ==
    /\ runs[l].pc = "none"
    /\ \E e \in HeadInputs : Commit(l, StartBody(World(l), area, 0, e))
    /\ pauseCalled' = FALSE
    /\ stopCalled' = FALSE
    /\ UNCHANGED <<travel, resumeDue, plannerVars, recoveryVars>>

\* POST /api/start: start(area), rejected with Already-Mining when mining.
Start(l, area) ==
    /\ runs[l].pc = "none"
    /\ \E e \in HeadInputs :
         IF state.status = "mining"
         THEN /\ out' = Recorded({"throw Already mining"})
              /\ UNCHANGED <<state, file, runs, antiStuck, movements, pauseCalled>>
         ELSE /\ Commit(l, StartBody(World(l), area, 0, e))
              /\ pauseCalled' = FALSE
    /\ stopCalled' = FALSE
    /\ UNCHANGED <<travel, resumeDue, plannerVars, recoveryVars>>

\* resumeIfNeeded(), called once by the boot timer.
ResumeIfNeeded(l) ==
    /\ resumeDue
    /\ runs[l].pc = "none"
    /\ resumeDue' = FALSE
    /\ IF file = NoFile
       THEN /\ out' = {}
            /\ UNCHANGED <<state, file, runs, antiStuck, movements, stopCalled,
                           pauseCalled>>
       ELSE /\ stopCalled' = FALSE
            /\ \E e \in HeadInputs :
                 IF state.status = "mining" /\ file.minedBlocks = 0
                 THEN /\ out' = Recorded({"throw Already mining"})
                      /\ UNCHANGED <<state, file, runs, antiStuck, movements,
                                     pauseCalled>>
                 ELSE /\ Commit(l, StartBody(World(l),
                                             Mk(file.area.min, file.area.max),
                                             file.minedBlocks, e))
                      /\ pauseCalled' = FALSE
    /\ UNCHANGED <<travel, plannerVars, recoveryVars>>

\* A run loop is pending and the status is mining or paused.
RunInProgress ==
    /\ \E l \in DOMAIN runs : runs[l].pc # "none"
    /\ state.status \in {"mining", "paused"}

\* pause() lines 335-342
Pause ==
    /\ IF state.status = "mining"
       THEN /\ state' = [state EXCEPT !.status = "paused"]
            /\ file' = SavedMiningState(state.area, state.minedBlocks)
            /\ out' = Recorded({"mining:paused user"})
       ELSE /\ out' = {}
            /\ UNCHANGED <<state, file>>
    /\ pauseCalled' = (world.audit /\ (pauseCalled \/ RunInProgress))
    /\ UNCHANGED <<runs, travel, antiStuck, movements, resumeDue, stopCalled,
                   plannerVars, recoveryVars>>

\* resume() lines 344-350
Resume ==
    /\ IF state.status = "paused"
       THEN /\ state' = [state EXCEPT !.status = "mining"]
            /\ out' = Recorded({"mining:resumed"})
       ELSE /\ out' = {}
            /\ UNCHANGED state
    /\ pauseCalled' = FALSE
    /\ UNCHANGED <<file, runs, travel, antiStuck, movements, resumeDue, stopCalled,
                   plannerVars, recoveryVars>>

\* stop() lines 352-359
Stop ==
    /\ state' = [state EXCEPT !.status = "idle", !.error = "null"]
    /\ antiStuck' = FALSE
    /\ file' = NoFile
    /\ stopCalled' = TRUE
    /\ pauseCalled' = FALSE
    /\ travel' = IF world.audit /\ travel = "nav" THEN "nav stopped" ELSE travel
    /\ out' = {}
    /\ UNCHANGED <<runs, movements, resumeDue, plannerVars, recoveryVars>>

\* goToBase() lines 373-390, up to the await of the navigation.  One
\* invocation is followed: a call while one is pending is followed when it
\* is refused.
GoToBase ==
    /\ travel = "none" \/ state.status \in {"mining", "traveling"}
    /\ stopCalled' = FALSE
    /\ IF ~world.base
       THEN /\ out' = Recorded({"throw Base coordinates not set in .env"})
            /\ UNCHANGED <<state, travel, antiStuck, movements>>
       ELSE IF state.status = "mining" \/ state.status = "traveling"
       THEN /\ out' = Recorded({"throw Bot is busy"})
            /\ UNCHANGED <<state, travel, antiStuck, movements>>
       ELSE /\ state' = [state EXCEPT !.status = "traveling",
                                      !.error = "Navigating to base..."]
            /\ movements' = "travel"
            /\ antiStuck' = TRUE
            /\ travel' = "nav"
            /\ out' = {}
    /\ UNCHANGED <<file, runs, resumeDue, pauseCalled, plannerVars, recoveryVars>>

\* goToBase() lines 392-405: the navigation settled.
GoToBaseSettled(arrived) ==
    /\ travel # "none"
    /\ travel' = "none"
    /\ state' = IF arrived
                THEN IF state.status = "traveling"
                     THEN [state EXCEPT !.status = "idle", !.error = "null"]
                     ELSE state
                ELSE IF state.status # "idle"
                     THEN [state EXCEPT !.status = "error",
                                        !.error = "Navigation error"]
                     ELSE state
    /\ antiStuck' = FALSE
    /\ out' = {}
    /\ UNCHANGED <<file, runs, movements, resumeDue, stopCalled, pauseCalled,
                   plannerVars, recoveryVars>>

\* The process exits (auto-reconnect calls process.exit) and launcher.js starts
\* it again: every object is constructed anew, the file stays.
ProcessRestart ==
    /\ state' = InitState
    /\ runs' = [l \in DOMAIN runs |-> NoRun]
    /\ travel' = "none"
    /\ antiStuck' = FALSE
    /\ movements' = "none"
    /\ resumeDue' = TRUE
    /\ stopCalled' = FALSE
    /\ pauseCalled' = FALSE
    /\ out' = {}
    /\ UNCHANGED <<file, plannerVars, recoveryVars>>

\* ------------------------------------------- resumptions of the run loop

\* after `await this.sleep(10)`, line 420
ResumeSaveYield(l) ==
    /\ runs[l].pc = "save_yield"
    /\ \E e \in HeadInputs : Commit(l, AutoPause(World(l), e.autoPause, e.health))
    /\ UNCHANGED <<travel, resumeDue, stopCalled, pauseCalled, plannerVars, recoveryVars>>

\* after `await this.sleep(2000)`, line 430
ResumeAutoPauseWait(l) ==
    /\ runs[l].pc = "autopause_wait"
    /\ \E e \in HeadInputs : Commit(l, AutoPauseWait(World(l), e.autoPause, e.health))
    /\ UNCHANGED <<travel, resumeDue, stopCalled, pauseCalled, plannerVars, recoveryVars>>

\* after `await this.foodManager.eatIfNeeded()`, line 444
ResumeHealEat(l) ==
    /\ runs[l].pc = "heal_eat"
    /\ Commit(l, At(World(l), "heal_sleep"))
    /\ UNCHANGED <<travel, resumeDue, stopCalled, pauseCalled, plannerVars, recoveryVars>>

\* after `await this.sleep(2000)`, line 445
ResumeHealSleep(l) ==
    /\ runs[l].pc = "heal_sleep"
    /\ \E health \in world.health :
         Commit(l, IF state.status = "idle"
                   THEN ExitStart(World(l), FALSE)
                   ELSE HealLoop(World(l), health))
    /\ UNCHANGED <<travel, resumeDue, stopCalled, pauseCalled, plannerVars, recoveryVars>>

\* after `await this.sleep(500)`, line 454
ResumePauseWait(l) ==
    /\ runs[l].pc = "pause_wait"
    /\ Commit(l, IF state.status = "idle"
                 THEN ExitStart(World(l), FALSE)
                 ELSE PauseHandling(World(l)))
    /\ UNCHANGED <<travel, resumeDue, stopCalled, pauseCalled, plannerVars, recoveryVars>>

\* after `await this.foodManager.eatIfNeeded(...)`, line 459: lines 461-462
\* and the entry of mineBlock.
ResumeEat(l) ==
    /\ runs[l].pc = "eat"
    /\ \E e \in HeadInputs :
         LET w == World(l)
             pos == generateZigzagPositions(w.run.area)[w.run.i + 1]
         IN Commit(l, AttemptHead([w EXCEPT !.run.pos = pos, !.run.attempts = 0,
                                           !.run.iters = 0], e))
    /\ UNCHANGED <<travel, resumeDue, stopCalled, pauseCalled, plannerVars, recoveryVars>>

\* after `await this.antiStuck.clearOverlapping()`, line 481: lines 483-516
ResumeClearOverlap(l) ==
    /\ runs[l].pc = "clear_overlap"
    /\ \E e \in HeadInputs, mineable \in world.mineable, full \in world.full,
          entity \in world.entity, far \in world.far :
         LET w == World(l)
         IN Commit(l, IF ~mineable THEN AfterMineBlock(w, e)
                      ELSE IF full
                           THEN At(Emit([w EXCEPT !.state.error = "Depositing items..."],
                                        "inventory:full"),
                                   "deposit")
                           ELSE Approach(w, e, entity, far, TRUE))
    /\ UNCHANGED <<travel, resumeDue, stopCalled, pauseCalled, plannerVars, recoveryVars>>

\* after `await this.inventoryManager.depositToChest(...)`, line 490
ResumeDeposit(l) ==
    /\ runs[l].pc = "deposit"
    /\ \E e \in HeadInputs, freed \in world.freed, entity \in world.entity,
          far \in world.far, mineable \in world.mineable :
         LET w == [World(l) EXCEPT !.state.error = "null"]
         IN Commit(l, IF ~freed
                      THEN At([w EXCEPT
                                 !.state.status = "paused",
                                 !.state.error = "Inventory full, no chest found",
                                 !.file = SavedMiningState(w.run.area,
                                                           w.state.minedBlocks)],
                              "inv_wait")
                      ELSE Approach(w, e, entity, far, mineable))
    /\ UNCHANGED <<travel, resumeDue, stopCalled, pauseCalled, plannerVars, recoveryVars>>

\* after `await this.sleep(1000)`, line 497
ResumeInvWait(l) ==
    /\ runs[l].pc = "inv_wait"
    /\ \E e \in HeadInputs, full \in world.full, entity \in world.entity,
          far \in world.far, mineable \in world.mineable :
         Commit(l, InventoryWait(World(l), e, full, entity, far, mineable))
    /\ UNCHANGED <<travel, resumeDue, stopCalled, pauseCalled, plannerVars, recoveryVars>>

\* after `await this.navigator.goNear(pos, 2)` settled (a failure is swallowed)
ResumeNav(l) ==
    /\ runs[l].pc = "nav"
    /\ \E e \in HeadInputs, mineable \in world.mineable :
         Commit(l, TargetCheck(World(l), e, mineable))
    /\ UNCHANGED <<travel, resumeDue, stopCalled, pauseCalled, plannerVars, recoveryVars>>

\* after `await this.toolSelector.equipFor(targetBlock)`, line 521
ResumeEquip(l) ==
    /\ runs[l].pc = "equip"
    /\ Commit(l, At(World(l), "look"))
    /\ UNCHANGED <<travel, resumeDue, stopCalled, pauseCalled, plannerVars, recoveryVars>>

\* after `await this.bot.lookAt(...)`, line 524: the reachability check, then
\* bot.dig is issued.
ResumeLook(l) ==
    /\ runs[l].pc = "look"
    /\ \E reachable \in world.reachable :
         Commit(l, IF reachable THEN At(World(l), "dig") ELSE FailAttempt(World(l)))
    /\ UNCHANGED <<travel, resumeDue, stopCalled, pauseCalled, plannerVars, recoveryVars>>

\* the dig race of lines 533-557 settled: resolved, or rejected by an error or
\* the dig timeout
ResumeDig(l) ==
    /\ runs[l].pc = "dig"
    /\ \E dug \in world.dug :
         Commit(l, IF dug THEN At(World(l), "confirm") ELSE FailAttempt(World(l)))
    /\ UNCHANGED <<travel, resumeDue, stopCalled, pauseCalled, plannerVars, recoveryVars>>

\* Marks of what the run loop was told and what it called, beside the events.
WaitAfterDig(confirmed) ==
    IF confirmed THEN "waitAfterDig true" ELSE "waitAfterDig false"

\* after `await this.posConfirmer.waitAfterDig(pos)`, line 560, whose result
\* is dropped: lines 562-566
ResumeConfirm(l) ==
    /\ runs[l].pc = "confirm"
    /\ \E e \in HeadInputs, confirmed \in world.confirmed :
         LET w == Emit(Emit(World(l), WaitAfterDig(confirmed)), "markSafePosition")
         IN Commit(l, AfterMineBlock(
                Emit([w EXCEPT !.file = SavedMiningState(w.run.area,
                                                         w.state.minedBlocks)],
                     "mining:block-mined"),
                e))
    /\ UNCHANGED <<travel, resumeDue, stopCalled, pauseCalled, plannerVars, recoveryVars>>

\* after `await this.sleep(500)`, line 569
ResumeRetrySleep(l) ==
    /\ runs[l].pc = "retry_sleep"
    /\ \E e \in HeadInputs : Commit(l, AttemptHead(World(l), e))
    /\ UNCHANGED <<travel, resumeDue, stopCalled, pauseCalled, plannerVars, recoveryVars>>

\* after `await this.sleep(delay)`, line 469: i++ and the next iteration
ResumeInterDelay(l) ==
    /\ runs[l].pc = "inter_delay"
    /\ \E e \in HeadInputs :
         Commit(l, IterHead([World(l) EXCEPT !.run.i = runs[l].i + 1], e))
    /\ UNCHANGED <<travel, resumeDue, stopCalled, pauseCalled, plannerVars, recoveryVars>>

\* ------------------------------------------- the timing policy on its own

\* Nothing read yet.
NoTimings == [read |-> FALSE]

\* Every getter of AdaptiveTimings that yields a duration, read at one moment.
ReadAll(ping, tps) ==
    [read |-> TRUE, ping |-> ping, tps |-> tps,
     digTimeout |-> digTimeout(ping, tps),
     pathfindTimeout |-> pathfindTimeout(ping),
     navigationTimeout |-> navigationTimeout(ping),
     safedigTimeout |-> safedigTimeout(ping),
     interBlockDelay |-> interBlockDelay(ping),
     postDigWaitTicks |-> postDigWaitTicks(ping),
     adaptiveWaitTicks |-> getAdaptiveWaitTicks(ping)]

\* Median latencies (ms) around every threshold and every cap of the policy.
TimingPings ==
    {0, 50, 51, 52, 100, 101, 150, 151, 200, 201, 300, 301, 400, 401, 500, 549, 550,
     1000, 1001, 4999, 5000, 7333, 7334, 11999, 12000, 20000}

\* Tick rates: Math.min(20, 1000 / avgDelta); 0 and 1, which the estimator
\* does not yield, are there for the getter's own max(1, tps).
TimingRates == {0, 1, 3, 4, 5, 7, 16, 19, 20}

\* ------------------------------------------------------------- AntiStuck

Slots == 1..MaxActivities

NoActivity == [kind |-> "none", pc |-> "none", level |-> 0, dug |-> 0]

\* AntiStuck fields, lines 393-434 (stats: totalRecoveries only).
InitRecovery ==
    [recovering |-> FALSE, recoveryLevel |-> 0, lastRecoveryTime |-> 0,
     stuckTicks |-> 0, consecutiveStucks |-> 0, totalRecoveries |-> 0,
     blockClearAttempted |-> FALSE]

\* No triggerRecovery() call yet, none executed.
NoTrigger == [calls |-> <<>>, execAt |-> -1]

RecoveryInit ==
    /\ recovery = InitRecovery
    /\ activities = [s \in Slots |-> NoActivity]
    /\ clock = Epoch
    /\ lastTrigger = NoTrigger

\* AntiStuck as one callback sees and changes it; calls collects the
\* triggerRecovery() calls the callback makes.
Guard ==
    [r |-> recovery, acts |-> activities, calls |-> <<>>, execAt |-> lastTrigger.execAt,
     out |-> {}]

CommitGuard(a) ==
    /\ recovery' = a.r
    /\ activities' = a.acts
    /\ lastTrigger' = [calls |-> a.calls, execAt |-> a.execAt]
    /\ out' = Recorded(a.out)

FreeSlot(acts) == CHOOSE s \in DOMAIN acts : acts[s].kind = "none"

\* What a triggerRecovery() call is recorded as: when it arrived, the latency
\* read, whether the ladder ran, the time of the last executed trigger before
\* it, the level, count and last-recovery time before and after the call, and
\* the level the 'safety:stuck' event of line 858 carries (-1: no event).
TriggerRecord(now, ping, executed, before, a, r1) ==
    [at |-> now, ping |-> ping, executed |-> executed, prevExecAt |-> a.execAt,
     before |-> <<a.r.recoveryLevel, a.r.totalRecoveries, a.r.lastRecoveryTime>>,
     after |-> <<r1.recoveryLevel, r1.totalRecoveries, r1.lastRecoveryTime>>,
     begun |-> before,
     announced |-> IF executed THEN r1.recoveryLevel ELSE -1]

\* A dropped triggerRecovery() call.
Dropped(a, now, ping) ==
    [a EXCEPT !.calls = Append(@, TriggerRecord(now, ping, FALSE, FALSE, a, a.r))]

\* Mutant: triggerRecovery without the cooldown test.
triggerRecoveryNoCooldown(a, now, ping) ==
    IF a.r.recovering THEN Dropped(a, now, ping)
    ELSE LET minLevel == minRecoveryLevel(ping)
             level == IF a.r.recoveryLevel < minLevel THEN minLevel
                      ELSE a.r.recoveryLevel
             r1 == [a.r EXCEPT !.recovering = TRUE,
                               !.lastRecoveryTime = now,
                               !.totalRecoveries = @ + 1,
                               !.consecutiveStucks = @ + 1,
                               !.recoveryLevel = level]
         IN [a EXCEPT !.r = r1,
                      !.acts[FreeSlot(a.acts)] =
                          [kind |-> "ladder", pc |-> "level", level |-> level, dug |-> 0],
                      !.calls = Append(@, TriggerRecord(now, ping, TRUE, TRUE, a, r1)),
                      !.execAt = now,
                      !.out = @ \cup {"safety:stuck"}]

\* Mutant: triggerRecovery without the raise to the minimum level.
triggerRecoveryNoFloor(a, now, ping) ==
    IF a.r.recovering THEN Dropped(a, now, ping)
    ELSE IF now - a.r.lastRecoveryTime < recoveryCooldown(ping)
    THEN Dropped(a, now, ping)
    ELSE LET level == a.r.recoveryLevel
             r1 == [a.r EXCEPT !.recovering = TRUE,
                               !.lastRecoveryTime = now,
                               !.totalRecoveries = @ + 1,
                               !.consecutiveStucks = @ + 1]
         IN [a EXCEPT !.r = r1,
                      !.acts[FreeSlot(a.acts)] =
                          [kind |-> "ladder", pc |-> "level", level |-> level, dug |-> 0],
                      !.calls = Append(@, TriggerRecord(now, ping, TRUE, TRUE, a, r1)),
                      !.execAt = now,
                      !.out = @ \cup {"safety:stuck"}]

\* Mutant: triggerRecovery without the test of _recovering.
triggerRecoveryReentrant(a, now, ping) ==
    IF now - a.r.lastRecoveryTime < recoveryCooldown(ping)
    THEN Dropped(a, now, ping)
    ELSE LET minLevel == minRecoveryLevel(ping)
             level == IF a.r.recoveryLevel < minLevel THEN minLevel
                      ELSE a.r.recoveryLevel
             r1 == [a.r EXCEPT !.recovering = TRUE,
                               !.lastRecoveryTime = now,
                               !.totalRecoveries = @ + 1,
                               !.consecutiveStucks = @ + 1,
                               !.recoveryLevel = level]
         IN [a EXCEPT !.r = r1,
                      !.acts[FreeSlot(a.acts)] =
                          [kind |-> "ladder", pc |-> "level", level |-> level, dug |-> 0],
                      !.calls = Append(@, TriggerRecord(now, ping, TRUE, TRUE, a, r1)),
                      !.execAt = now,
                      !.out = @ \cup {"safety:stuck"}]

\* triggerRecovery lines 839-867, up to the await of the level's routine.
triggerRecovery(a, now, ping) ==
    IF a.r.recovering THEN Dropped(a, now, ping)
    ELSE IF now - a.r.lastRecoveryTime < recoveryCooldown(ping)
    THEN Dropped(a, now, ping)
    ELSE LET minLevel == minRecoveryLevel(ping)
             level == IF a.r.recoveryLevel < minLevel THEN minLevel
                      ELSE a.r.recoveryLevel
             r1 == [a.r EXCEPT !.recovering = TRUE,
                               !.lastRecoveryTime = now,
                               !.totalRecoveries = @ + 1,
                               !.consecutiveStucks = @ + 1,
                               !.recoveryLevel = level]
         IN [a EXCEPT !.r = r1,
                      !.acts[FreeSlot(a.acts)] =
                          [kind |-> "ladder", pc |-> "level", level |-> level, dug |-> 0],
                      !.calls = Append(@, TriggerRecord(now, ping, TRUE, TRUE, a, r1)),
                      !.execAt = now,
                      !.out = @ \cup {"safety:stuck"}]

\* clearBlockingPath lines 631-641, up to the first await.
clearBlockingPath(a, blocking) ==
    IF a.r.recovering THEN a
    ELSE IF ~blocking THEN a
    ELSE [a EXCEPT !.r.recovering = TRUE,
                   !.acts[FreeSlot(a.acts)] =
                       [kind |-> "path", pc |-> "clearing", level |-> 0, dug |-> 0]]

\* Mutant: a ladder that is still obstructed escalates without the cap.
EscalateUncapped(level) == level + 1

\* Math.min(this.recoveryLevel + 1, MAX_RECOVERY_LEVEL)
Escalate(level) == Min(level + 1, MAX_RECOVERY_LEVEL)

\* Mutant: a clear re-check resets the ladder.
DeescalateToZero(level) == 0

\* Math.max(0, this.recoveryLevel - 1)
Deescalate(level) == Max(0, level - 1)

NavOps == 1..MaxNavOps

\* pathfinder.stop(): the solving of the current goal is cancelled; its
\* promise settles later.
PathfinderStop(n) ==
    [n EXCEPT !.ops = [k \in NavOps |->
                         IF n.ops[k].solver = "solving"
                         THEN [n.ops[k] EXCEPT !.solver = "stopped"]
                         ELSE n.ops[k]]]

\* bot.clearControlStates()
clearControlStates(n) == [n EXCEPT !.forward = FALSE, !.jump = 0]

\* ------------------------------------------------ what the monitors keep

\* Vec3.distanceTo, for positions along a line, in tenths of a block.
distanceTo(a, b) == IF a >= b THEN a - b ELSE b - a

\* What the last stall callback saw: its answers and the history it scanned.
NoSeen ==
    [moved |-> FALSE, stalled |-> FALSE, active |-> FALSE, blocking |-> FALSE,
     pushed |-> <<>>]

\* AntiStuck as constructed, lines 394-420, and bot.physics.playerSpeed (in
\* 1/10000 block per tick): tickListener and stallInterval with the number
\* of listeners and intervals registered with the bot, the saved speed,
\* lastMovePos (-1: null) and lastMoveTime, posHistory, safePositions and
\* lastSafeSave.  History: the overlapping ticks monitored in a row, the
\* targeted clears since the bot last moved or a stall recovery was
\* triggered, the stall callbacks that ran, what the last one saw,
\* and where the bot was at the last markSafePosition() (-1: no call yet, or
\* none in the last step of the listener).
NoWatch ==
    [tickListener |-> FALSE, tickListeners |-> 0,
     stallInterval |-> FALSE, stallTimers |-> 0,
     playerSpeed |-> 1000, savedPlayerSpeed |-> 0,
     lastMovePos |-> -1, lastMoveTime |-> 0,
     posHistory |-> <<>>, safePositions |-> <<>>, lastSafeSave |-> 0,
     overlapRun |-> 0, clears |-> 0, calls |-> 0, seen |-> NoSeen,
     candidate |-> -1]

\* The monitors' state is followed in the settings that trace it.
Watched(w) == IF world.trace THEN w ELSE watch

\* Mutant: markSafePosition without the test of the distance.
markSafePositionAnywhere(w, entity, pos) ==
    IF ~entity THEN w
    ELSE LET pushed == Append(w.safePositions, pos)
         IN [w EXCEPT !.safePositions =
                 IF Len(pushed) > SAFE_POSITIONS_KEEP THEN Tail(pushed) ELSE pushed]

\* markSafePosition lines 476-489
markSafePosition(w, entity, pos) ==
    IF ~entity THEN w
    ELSE IF Len(w.safePositions) > 0
            /\ distanceTo(pos, w.safePositions[Len(w.safePositions)]) < 10
    THEN w
    ELSE LET pushed == Append(w.safePositions, pos)
         IN [w EXCEPT !.safePositions =
                 IF Len(pushed) > SAFE_POSITIONS_KEEP THEN Tail(pushed) ELSE pushed]

\* slowDownPhysics lines 674-678
slowDownPhysics(w, ping) ==
    [w EXCEPT !.savedPlayerSpeed = w.playerSpeed,
              !.playerSpeed = (w.playerSpeed * speedMultiplier(ping)) \div 100]

\* Mutant: restorePhysics that leaves the speed as it is.
restorePhysicsKeeps(w) == [w EXCEPT !.savedPlayerSpeed = 0]

\* restorePhysics lines 680-685
restorePhysics(w) ==
    IF w.savedPlayerSpeed > 0
    THEN [w EXCEPT !.playerSpeed = w.savedPlayerSpeed, !.savedPlayerSpeed = 0]
    ELSE w

\* startTickMonitor lines 689-693, 737: the listener is registered.
startTickMonitor(w) ==
    IF w.tickListener THEN w
    ELSE [w EXCEPT !.tickListener = TRUE, !.tickListeners = @ + 1]

\* stopTickMonitor lines 740-745
stopTickMonitor(w) ==
    IF w.tickListener
    THEN [w EXCEPT !.tickListener = FALSE, !.tickListeners = @ - 1]
    ELSE w

\* startStallMonitor lines 749-754, 798: the interval is set.
startStallMonitor(w, entity, pos, now) ==
    IF w.stallInterval THEN w
    ELSE [w EXCEPT !.lastMovePos = IF entity THEN pos ELSE -1,
                   !.lastMoveTime = now,
                   !.clears = 0,
                   !.stallInterval = TRUE,
                   !.stallTimers = @ + 1]

\* stopStallMonitor lines 801-806
stopStallMonitor(w) ==
    IF w.stallInterval
    THEN [w EXCEPT !.stallInterval = FALSE, !.stallTimers = @ - 1]
    ELSE w

\* A slot is free for an activity the callback may start.
CanStart == \E s \in Slots : activities[s].kind = "none"

\* enable() lines 445-454
Enable ==
    /\ antiStuck' = TRUE
    /\ CommitGuard(IF antiStuck \/ watch.tickListener THEN Guard
                   ELSE [Guard EXCEPT !.r.stuckTicks = 0])
    /\ watch' \in
         {Watched(IF antiStuck THEN watch
                  ELSE startStallMonitor(
                         startTickMonitor(slowDownPhysics(watch, ping)),
                         entity, pos, clock)) :
            ping \in world.ping, entity \in world.entity, pos \in world.pos}
    /\ UNCHANGED <<clock, engineOnly, world, pArea, pOut, timings, nav, digs>>

\* disable() lines 456-471
Disable ==
    /\ antiStuck' = FALSE
    /\ CommitGuard(IF ~antiStuck THEN Guard
                   ELSE [Guard EXCEPT !.r.recoveryLevel = 0,
                                      !.r.consecutiveStucks = 0,
                                      !.r.stuckTicks = 0,
                                      !.r.blockClearAttempted = FALSE])
    /\ watch' = Watched(IF ~antiStuck THEN watch
                        ELSE [stopStallMonitor(stopTickMonitor(restorePhysics(watch)))
                                EXCEPT !.posHistory = <<>>])
    /\ UNCHANGED <<clock, engineOnly, world, pArea, pOut, timings, nav, digs>>

\* reset() lines 652-662
Reset ==
    /\ CommitGuard([Guard EXCEPT !.r.recoveryLevel = 0,
                                 !.r.consecutiveStucks = 0,
                                 !.r.stuckTicks = 0,
                                 !.r.blockClearAttempted = FALSE,
                                 !.r.totalRecoveries = 0])
    /\ watch' = Watched([watch EXCEPT !.posHistory = <<>>,
                                      !.safePositions = <<>>,
                                      !.candidate = -1,
                                      !.clears = 0,
                                      !.lastMovePos = -1,
                                      !.lastMoveTime = clock])
    /\ UNCHANGED <<antiStuck, clock, engineOnly, world, pArea, pOut, timings, nav, digs>>

\* markSafePosition() as the engine calls it after a dig that succeeded,
\* state-manager.ts line 562.
MarkSafePosition ==
    /\ \E entity \in world.entity, pos \in world.pos :
         watch' = Watched([markSafePosition(watch, entity, pos) EXCEPT
                             !.candidate = IF entity THEN pos ELSE -1])
    /\ UNCHANGED <<recoveryVars, engineVars, world, pArea, pOut, timings, nav, digs>>

\* Mutant: the listener without the test of stuckTicks > 0 before the level
\* is lowered.
TickClears(a) ==
    [a EXCEPT !.r.recoveryLevel = Deescalate(@), !.r.stuckTicks = 0]

\* Lines 721-726: a tick without overlap.
TickClear(a) ==
    [a EXCEPT !.r.recoveryLevel = IF a.r.stuckTicks > 0 THEN Deescalate(@) ELSE @,
              !.r.stuckTicks = 0]

\* The physicTick listener of startTickMonitor, lines 695-735, as one record:
\* AntiStuck (a), the controls (n) and the monitors' state (w) afterwards.
\* rubber: the bot is further from lastTickPos than the rubber-band distance
\* and nearer than 20.
TickCallback(entity, overlapping, ping, rubber, onGround, pos) ==
    IF ~entity \/ recovery.recovering
    THEN [a |-> Guard, n |-> nav, w |-> [watch EXCEPT !.candidate = -1]]
    ELSE [a |-> IF overlapping
                THEN LET a1 == [Guard EXCEPT !.r.stuckTicks = @ + 1]
                     IN IF a1.r.stuckTicks >= stuckTicksThreshold(ping)
                           /\ ~a1.r.recovering
                        THEN triggerRecovery([a1 EXCEPT !.out = {"Suffocation"}],
                                             clock, ping)
                        ELSE a1
                ELSE TickClear(Guard),
          n |-> IF rubber THEN clearControlStates(nav) ELSE nav,
          w |-> LET w1 == [watch EXCEPT !.overlapRun =
                             IF overlapping THEN Min(@ + 1, MaxStuckTicks) ELSE 0]
                IN IF ~overlapping /\ onGround
                      /\ clock - watch.lastSafeSave > SAFE_SAVE_INTERVAL
                   THEN [markSafePosition(w1, entity, pos) EXCEPT
                           !.lastSafeSave = clock, !.candidate = pos]
                   ELSE [w1 EXCEPT !.candidate = -1]]

\* One physics tick, for every answer the bot may give.
TickMonitor ==
    /\ antiStuck
    /\ CanStart
    /\ \E x \in {TickCallback(entity, overlapping, ping, rubber, onGround, pos) :
                    entity \in world.entity,
                    overlapping \in IF recovery.stuckTicks < MaxStuckTicks
                                    THEN BOOLEAN ELSE {FALSE},
                    ping \in world.ping, rubber \in world.rubber,
                    onGround \in world.onGround, pos \in world.pos} :
         /\ CommitGuard(x.a)
         /\ nav' = x.n
         /\ watch' = Watched(x.w)
    /\ UNCHANGED <<antiStuck, clock, engineOnly, world, pArea, pOut, timings, digs>>

\* The far-to-near transitions the scan of checkForLoop counts, lines 819-827,
\* from entry i on; every entry is compared with the last one.
RECURSIVE loopReturns(_, _, _)
loopReturns(h, i, lastWasNear) ==
    IF i > Len(h) THEN 0
    ELSE LET near == distanceTo(h[i], h[Len(h)]) < LOOP_RADIUS
         IN (IF near /\ ~lastWasNear THEN 1 ELSE 0) + loopReturns(h, i + 1, near)

\* Mutant: the loop test without the minimum length of the history.
loopFoundAnyLength(h) == Len(h) > 0 /\ loopReturns(h, 1, TRUE) >= LOOP_COUNT

\* Lines 817 and 829 of checkForLoop: the history holds at least half of
\* POSITION_HISTORY_SIZE samples and the scan counts LOOP_COUNT returns.
loopFound(h) ==
    /\ Len(h) * 2 >= POSITION_HISTORY_SIZE
    /\ loopReturns(h, 1, TRUE) >= LOOP_COUNT

\* Lines 762-765: the sample is pushed and the oldest one dropped above
\* POSITION_HISTORY_SIZE.
pushHistory(h, pos) ==
    LET pushed == Append(h, pos)
    IN IF Len(pushed) > POSITION_HISTORY_SIZE THEN Tail(pushed) ELSE pushed

\* checkForLoop lines 816-835
checkForLoop(a, loop, now, ping) ==
    IF loop THEN triggerRecovery([a EXCEPT !.out = @ \cup {"Loop detected"}], now, ping)
    ELSE a

\* Mutant: the stall branch that does not note the targeted clear it makes.
StallClearForgets(a, blocking) ==
    clearBlockingPath([a EXCEPT !.out = @ \cup {"Stall: clearing path"}], blocking)

\* Lines 779-783: the targeted clear of the stall branch.
StallClear(a, blocking) ==
    clearBlockingPath([a EXCEPT !.r.blockClearAttempted = TRUE,
                                !.out = @ \cup {"Stall: clearing path"}],
                      blocking)

\* The interval callback of startStallMonitor, lines 755-798, as one record:
\* AntiStuck (a) and the monitors' state (w) afterwards.  moved: the bot
\* moved more than 0.15 since lastMovePos; stalled: no movement for longer
\* than the stall threshold; loop: the position history shows a loop.
StallCallback(entity, moved, stalled, pathfinderActive, blocking, loop, ping, pos) ==
    IF ~entity \/ recovery.recovering THEN [a |-> Guard, w |-> watch]
    ELSE LET a == Guard
             detected == ~moved /\ stalled /\ pathfinderActive /\ ~a.r.recovering
             clearing == detected /\ blocking /\ ~a.r.blockClearAttempted
             a1 == IF moved
                   THEN [a EXCEPT !.r.consecutiveStucks = 0,
                                  !.r.blockClearAttempted = FALSE]
                   ELSE IF detected
                   THEN IF clearing
                        THEN StallClear(a, blocking)
                        ELSE triggerRecovery(
                               [a EXCEPT !.r.blockClearAttempted = FALSE,
                                         !.out = @ \cup {"Stall"}],
                               clock, ping)
                   ELSE a
             pushed == pushHistory(watch.posHistory, pos)
         IN [a |-> checkForLoop(a1, loop, clock, ping),
             w |-> [watch EXCEPT
                      !.posHistory = IF loop THEN <<>> ELSE pushed,
                      !.lastMovePos = IF moved THEN pos ELSE @,
                      !.lastMoveTime = IF moved \/ detected THEN clock ELSE @,
                      !.clears = IF moved \/ (detected /\ ~clearing) THEN 0
                                 ELSE IF clearing THEN Min(@ + 1, 2) ELSE @,
                      !.calls = @ + 1,
                      !.seen = [moved |-> moved, stalled |-> stalled,
                                active |-> pathfinderActive,
                                blocking |-> blocking, pushed |-> pushed]]]

\* isPathfinderActive lines 808-814: the pathfinder has a goal.
isPathfinderActive == \E k \in NavOps : nav.ops[k].solver = "solving"

\* What the callback finds at lines 769-771, 775 and 816-829 where the
\* monitors' history is followed; elsewhere any answer (free) may come.
StallFinds(pos, ping, free) ==
    IF world.trace
    THEN [moved |-> watch.lastMovePos # -1
                    /\ distanceTo(pos, watch.lastMovePos) > 1,
          stalled |-> watch.lastMovePos # -1
                      /\ clock - watch.lastMoveTime > stallTimeThreshold(ping),
          active |-> isPathfinderActive,
          loop |-> loopFound(pushHistory(watch.posHistory, pos))]
    ELSE free

\* One firing of the stall interval, for every answer the bot may give.
StallMonitor ==
    /\ antiStuck
    /\ CanStart
    /\ watch.calls < MaxStallCalls
    /\ \E x \in {LET f == StallFinds(pos, ping, free)
                 IN StallCallback(entity, f.moved, f.stalled, f.active,
                                  blocking, f.loop, ping, pos) :
                    entity \in world.entity, pos \in world.pos,
                    ping \in world.ping, blocking \in BOOLEAN,
                    free \in IF world.trace THEN {NoSeen}
                             ELSE [moved : BOOLEAN, stalled : BOOLEAN,
                                   active : BOOLEAN, loop : BOOLEAN]} :
         /\ CommitGuard(x.a)
         /\ watch' = Watched(x.w)
    /\ UNCHANGED <<antiStuck, clock, engineOnly, world, pArea, pOut, timings, nav, digs>>

\* The stuckChecker interval of Navigator.gotoWithTimeout, lines 141-161, when
\* the bot has not moved for 2 s of a navigation.
NavigatorStuckCheck ==
    /\ CanStart
    /\ \E blocking \in BOOLEAN :
         CommitGuard(IF ~recovery.recovering
                     THEN clearBlockingPath(Guard, blocking)
                     ELSE Guard)
    /\ UNCHANGED <<antiStuck, clock, engineOnly, plannerVars>>

\* Mutant: the emergency routine without pathfinder.stop().
recoverLevel5_noStop(n) == clearControlStates(n)

\* recoverLevel5_emergency lines 1016-1020: the controls are released and the
\* pathfinder is stopped.
recoverLevel5_emergency(n) == PathfinderStop(clearControlStates(n))

\* What the routine of a level has done to the controls and the pathfinder
\* when it returns.  ranToEnd: the bot had an entity (levels 1, 3, 4 and 5
\* return at once without one, lines 902, 960, 981, 1000).
levelRoutine(n, level, ranToEnd) ==
    IF level >= MAX_RECOVERY_LEVEL
    THEN (IF ranToEnd THEN recoverLevel5_emergency(n) ELSE n)
    ELSE IF level = 1
    THEN (IF ranToEnd THEN clearControlStates(n) ELSE n)
    ELSE IF level \in {3, 4}
    THEN (IF ranToEnd THEN [n EXCEPT !.jump = 0] ELSE n)
    ELSE [n EXCEPT !.jump = 0]

\* The routine of the level returned or threw (lines 860-867, 879-884); the
\* emergency routine resets the level when it runs to its end (line 1022).
LadderLevelDone(s) ==
    /\ activities[s].kind = "ladder"
    /\ activities[s].pc = "level"
    /\ \E threw \in BOOLEAN, ranToEnd \in BOOLEAN :
         /\ CommitGuard(
              IF threw
              THEN [Guard EXCEPT !.r.recoveryLevel = Escalate(@),
                                 !.r.recovering = FALSE,
                                 !.acts[s] = NoActivity,
                                 !.out = {"Recovery error"}]
              ELSE IF activities[s].level >= MAX_RECOVERY_LEVEL /\ ranToEnd
              THEN [Guard EXCEPT !.r.recoveryLevel = 0,
                                 !.r.consecutiveStucks = 0,
                                 !.acts[s].pc = "settle",
                                 !.out = {"emergency ran to its end"}]
              ELSE [Guard EXCEPT !.acts[s].pc = "settle"])
         /\ nav' = IF threw THEN nav
                   ELSE levelRoutine(nav, activities[s].level, ranToEnd)
    /\ UNCHANGED <<antiStuck, clock, engineOnly, world, pArea, pOut, timings, digs, watch>>

\* after `await this.sleep(300)`, line 869: lines 870-884
LadderSettled(s) ==
    /\ activities[s].kind = "ladder"
    /\ activities[s].pc = "settle"
    /\ \E stillStuck \in BOOLEAN :
         CommitGuard(
           IF stillStuck
           THEN [Guard EXCEPT !.r.recoveryLevel = Escalate(@),
                              !.r.recovering = FALSE,
                              !.acts[s] = NoActivity,
                              !.out = {"still stuck"}]
           ELSE [Guard EXCEPT !.r.recoveryLevel = Deescalate(@),
                              !.r.stuckTicks = 0,
                              !.r.recovering = FALSE,
                              !.acts[s] = NoActivity,
                              !.out = {"safety:unstuck"}])
    /\ UNCHANGED <<antiStuck, clock, engineOnly, plannerVars>>

\* clearBlockingPath lines 640-649: the digs are over, or one threw.
PathClearDone(s) ==
    /\ activities[s].kind = "path"
    /\ CommitGuard([Guard EXCEPT !.r.recovering = FALSE, !.acts[s] = NoActivity])
    /\ UNCHANGED <<antiStuck, clock, engineOnly, plannerVars>>

\* Two seconds pass.
Advance ==
    /\ clock < Epoch + MaxClockSteps * 2000
    /\ clock' = clock + 2000
    /\ UNCHANGED <<recovery, activities, lastTrigger, engineVars, plannerVars>>

\* ------------------------------------------------ Navigator on its own

\* The closure of one gotoWithTimeout call: isDone, stuckMs, the interval
\* (checker) and the two timers (timer, jumpOff) it has armed, the promise of
\* pathfinder.goto (solver), and what was done to the promise returned
\* (result, and the number of resolve/reject calls made on it).
NoOp ==
    [kind |-> "none", timeoutMs |-> 0, isDone |-> FALSE, stuckMs |-> 0,
     checker |-> FALSE, timer |-> FALSE, jumpOff |-> FALSE,
     solver |-> "none", result |-> "none", settles |-> 0, timedOut |-> FALSE]

\* No Navigator operation yet; the bot's controls: forward as the pathfinder
\* sets it, jump as the stall-kick of operation k set it (0: released).
NoNav == [ops |-> [k \in NavOps |-> NoOp], forward |-> FALSE, jump |-> 0]

\* The closure is gone: the operation settled and nothing it armed is left.
Spent(op) ==
    op.kind = "none"
    \/ (op.isDone /\ ~op.jumpOff /\ op.solver \in {"none", "settled"})

\* Mutant: finish without clearControlStates.
finishNoRelease(n, k, err) ==
    IF n.ops[k].isDone THEN n
    ELSE [n EXCEPT !.ops[k].isDone = TRUE,
                   !.ops[k].checker = FALSE,
                   !.ops[k].timer = FALSE,
                   !.ops[k].result = err,
                   !.ops[k].settles = @ + 1]

\* Mutant: finish without the test of isDone.
finishReentrant(n, k, err) ==
    [n EXCEPT !.ops[k].isDone = TRUE,
              !.ops[k].checker = FALSE,
              !.ops[k].timer = FALSE,
              !.forward = FALSE,
              !.jump = 0,
              !.ops[k].result = err,
              !.ops[k].settles = @ + 1]

\* finish, lines 127-135; err is "resolved" for finish().
finish(n, k, err) ==
    IF n.ops[k].isDone THEN n
    ELSE [n EXCEPT !.ops[k].isDone = TRUE,
                   !.ops[k].checker = FALSE,
                   !.ops[k].timer = FALSE,
                   !.forward = FALSE,
                   !.jump = 0,
                   !.ops[k].result = err,
                   !.ops[k].settles = @ + 1]

\* The timeout the operation is given: goNear, goToXZ, goTo, lines 93-112.
NavTimeout(kind, ping) ==
    IF kind = "goNear" THEN pathfindTimeout(ping) ELSE navigationTimeout(ping)

\* gotoWithTimeout lines 122-171, the executor of the promise: with the
\* entity gone line 137 throws and the promise is rejected with nothing armed.
\* One operation runs at a time; its closure takes the first place free,
\* and the closures that are gone are forgotten.
GotoWithTimeout(k, kind) ==
    /\ Spent(nav.ops[k])
    /\ \A j \in NavOps : j < k => ~Spent(nav.ops[j])
    /\ \A j \in NavOps : nav.ops[j].kind # "none" => nav.ops[j].isDone
    /\ \E entity \in world.entity, ping \in world.ping :
         LET others == [j \in NavOps |->
                         IF Spent(nav.ops[j]) THEN NoOp ELSE nav.ops[j]]
             begun == [NoOp EXCEPT !.kind = kind,
                                   !.timeoutMs = NavTimeout(kind, ping)]
         IN nav' = [nav EXCEPT !.ops =
                      [others EXCEPT ![k] =
                         IF entity
                         THEN [begun EXCEPT !.checker = TRUE, !.timer = TRUE,
                                            !.solver = "solving"]
                         ELSE [begun EXCEPT !.isDone = TRUE,
                                            !.result = "TypeError",
                                            !.settles = 1]]]
    /\ out' = {}
    /\ UNCHANGED <<recovery, activities, lastTrigger, clock, antiStuck, engineOnly,
                   world, pArea, pOut, timings, digs, watch>>

\* The pathfinder steers the bot towards the goal it is solving.
PathfinderDrives(k) ==
    /\ nav.ops[k].solver = "solving"
    /\ nav' = [nav EXCEPT !.forward = TRUE]
    /\ out' = {}
    /\ UNCHANGED <<recovery, activities, lastTrigger, clock, antiStuck, engineOnly,
                   world, pArea, pOut, timings, digs, watch>>

\* The stuckChecker interval fires, lines 141-161.  moved: the bot is 0.2 or
\* more from lastPos.
StuckChecker(k) ==
    /\ nav.ops[k].checker
    /\ \E s \in DOMAIN activities : activities[s].kind = "none"
    /\ \E entity \in world.entity, moved \in BOOLEAN, blocking \in BOOLEAN :
         IF nav.ops[k].isDone \/ ~entity
         THEN UNCHANGED <<nav, recovery, activities, lastTrigger, out>>
         ELSE IF moved
         THEN /\ nav' = [nav EXCEPT !.ops[k].stuckMs = 0]
              /\ out' = {}
              /\ UNCHANGED <<recovery, activities, lastTrigger>>
         ELSE IF nav.ops[k].stuckMs + 500 < 2000
         THEN /\ nav' = [nav EXCEPT !.ops[k].stuckMs = @ + 500]
              /\ out' = {}
              /\ UNCHANGED <<recovery, activities, lastTrigger>>
         ELSE /\ CommitGuard(IF ~recovery.recovering
                             THEN clearBlockingPath(Guard, blocking)
                             ELSE Guard)
              /\ nav' = [nav EXCEPT !.jump = k,
                                    !.ops[k].jumpOff = TRUE,
                                    !.ops[k].stuckMs = 0]
    /\ UNCHANGED <<clock, antiStuck, engineOnly, world, pArea, pOut, timings, digs, watch>>

\* The timer of line 152 fires, 250 ms after a kick.
JumpOff(k) ==
    /\ nav.ops[k].jumpOff
    /\ nav' = [nav EXCEPT !.ops[k].jumpOff = FALSE,
                          !.jump = IF nav.ops[k].isDone THEN @ ELSE 0]
    /\ out' = {}
    /\ UNCHANGED <<recovery, activities, lastTrigger, clock, antiStuck, engineOnly,
                   world, pArea, pOut, timings, digs, watch>>

\* The timeout timer fires, lines 163-166.
PathTimeout(k) ==
    /\ nav.ops[k].timer
    /\ nav' = finish([PathfinderStop(nav) EXCEPT !.ops[k].timer = FALSE,
                                                 !.ops[k].timedOut = TRUE],
                     k, "Path timeout")
    /\ out' = {}
    /\ UNCHANGED <<recovery, activities, lastTrigger, clock, antiStuck, engineOnly,
                   world, pArea, pOut, timings, digs, watch>>

\* The promise of pathfinder.goto settles, lines 168-170: it resolves, or it
\* rejects (no path, goal changed, or stopped).
GotoSettles(k) ==
    /\ nav.ops[k].solver \in {"solving", "stopped"}
    /\ \E err \in {"resolved", "goto error"} :
         nav' = finish([nav EXCEPT !.ops[k].solver = "settled"], k, err)
    /\ out' = {}
    /\ UNCHANGED <<recovery, activities, lastTrigger, clock, antiStuck, engineOnly,
                   world, pArea, pOut, timings, digs, watch>>

\* Navigator.stop(), lines 117-120, as MiningEngine.stop() calls it.
NavigatorStop ==
    /\ nav' = [PathfinderStop(nav) EXCEPT !.forward = FALSE, !.jump = 0]
    /\ out' = {}
    /\ UNCHANGED <<recovery, activities, lastTrigger, clock, antiStuck, engineOnly,
                   world, pArea, pOut, timings, digs, watch>>

\* ------------------------------------------------ the dig race on its own

DigOps == 1..MaxDigOps

\* The closure of one dig race (mineBlock lines 533-557, safeDig lines
\* 1031-1053): finished/done, the timeout timer and the grace timer armed,
\* the promise of bot.dig (dig), what was done to the promise of the race
\* (result, and the number of resolve/reject calls made on it), whether the
\* timeout fired first, and the race whose timer stopped this dig (0: none).
NoRace ==
    [kind |-> "none", timeout |-> 0, finished |-> FALSE, timer |-> FALSE,
     grace |-> FALSE, dig |-> "none", result |-> "none", settles |-> 0,
     timedOut |-> FALSE, stoppedBy |-> 0]

\* The confirmation wait: no call of waitForBlockBreak yet.
NoWait == [pc |-> "none", ping |-> 0, maxTicks |-> 0, polls |-> 0, empty |-> FALSE]

\* No dig yet.  digging: the race whose bot.dig the bot is carrying out.
NoDigs == [ops |-> [k \in DigOps |-> NoRace], digging |-> 0, wait |-> NoWait]

\* The closure is gone: the race settled and nothing it armed is left.
SpentRace(op) ==
    op.kind = "none"
    \/ (op.finished /\ ~op.grace /\ op.dig = "settled")

\* bot.stopDigging() called by the timer of race k: the dig the bot is
\* carrying out is aborted, its promise settles later.
stopDigging(d, k) ==
    IF d.digging = 0 THEN d
    ELSE [d EXCEPT !.ops[d.digging].dig = "aborted",
                   !.ops[d.digging].stoppedBy = k,
                   !.digging = 0]

\* Mutant: the then/catch of bot.dig without the test of finished.
digSettledUnguarded(d, k, res) ==
    [d EXCEPT !.ops[k].finished = TRUE,
              !.ops[k].timer = FALSE,
              !.ops[k].result = res,
              !.ops[k].settles = @ + 1]

\* The then/catch of bot.dig, lines 543-555 (safeDig 1041-1052): res is what
\* the race's promise is settled with.
digSettled(d, k, res) ==
    IF d.ops[k].finished THEN d
    ELSE [d EXCEPT !.ops[k].finished = TRUE,
                   !.ops[k].timer = FALSE,
                   !.ops[k].result = res,
                   !.ops[k].settles = @ + 1]

\* Mutant: the timeout callback of safeDig without its resolve(false).
digTimedOutSilent(d, k) ==
    IF d.ops[k].finished THEN [d EXCEPT !.ops[k].timer = FALSE]
    ELSE LET d1 == stopDigging([d EXCEPT !.ops[k].finished = TRUE,
                                         !.ops[k].timer = FALSE,
                                         !.ops[k].timedOut = TRUE], k)
         IN IF d.ops[k].kind = "mineBlock"
            THEN [d1 EXCEPT !.ops[k].grace = TRUE]
            ELSE d1

\* The timeout callback, lines 536-541: stopDigging, then the rejection 300 ms
\* later; safeDig lines 1034-1039: stopDigging, then resolve(false) at once.
digTimedOut(d, k) ==
    IF d.ops[k].finished THEN [d EXCEPT !.ops[k].timer = FALSE]
    ELSE LET d1 == stopDigging([d EXCEPT !.ops[k].finished = TRUE,
                                         !.ops[k].timer = FALSE,
                                         !.ops[k].timedOut = TRUE], k)
         IN IF d.ops[k].kind = "mineBlock"
            THEN [d1 EXCEPT !.ops[k].grace = TRUE]
            ELSE [d1 EXCEPT !.ops[k].result = "false", !.ops[k].settles = @ + 1]

\* The race begins: the timeout is read and armed, bot.dig is called.  One
\* race is followed at a time; its closure takes the first place free, and
\* the closures that are gone are forgotten.
DigRace(k, kind) ==
    /\ SpentRace(digs.ops[k])
    /\ \A j \in DigOps : j < k => ~SpentRace(digs.ops[j])
    /\ \A j \in DigOps : digs.ops[j].kind # "none" => digs.ops[j].finished
    /\ digs.digging = 0
    /\ \E ping \in world.ping, tps \in world.tps :
         LET others == [j \in DigOps |->
                         IF SpentRace(digs.ops[j]) THEN NoRace ELSE digs.ops[j]]
         IN digs' = [digs EXCEPT
                       !.ops = [others EXCEPT ![k] =
                                  [NoRace EXCEPT !.kind = kind,
                                                 !.timeout = IF kind = "mineBlock"
                                                             THEN digTimeout(ping, tps)
                                                             ELSE safedigTimeout(ping),
                                                 !.timer = TRUE,
                                                 !.dig = "digging"]],
                       !.digging = k]
    /\ out' = {}
    /\ UNCHANGED <<world, pArea, pOut, timings, nav, watch, engineOnly, antiStuck, recoveryVars>>

\* The timeout timer of race k fires.
DigTimer(k) ==
    /\ digs.ops[k].timer
    /\ digs' = digTimedOut(digs, k)
    /\ out' = {}
    /\ UNCHANGED <<world, pArea, pOut, timings, nav, watch, engineOnly, antiStuck, recoveryVars>>

\* The grace timer of line 540 fires: reject(new Error('Dig timeout')).
DigGraceOver(k) ==
    /\ digs.ops[k].grace
    /\ digs' = [digs EXCEPT !.ops[k].grace = FALSE,
                            !.ops[k].result = "Dig timeout",
                            !.ops[k].settles = @ + 1]
    /\ out' = {}
    /\ UNCHANGED <<world, pArea, pOut, timings, nav, watch, engineOnly, antiStuck, recoveryVars>>

\* The promise of bot.dig settles: it resolves, or it rejects (aborted, or
\* an error of the dig).
DigSettles(k) ==
    /\ digs.ops[k].dig \in {"digging", "aborted"}
    /\ \E dug \in world.dug :
         LET res == IF digs.ops[k].kind = "mineBlock"
                    THEN (IF dug THEN "resolved" ELSE "dig error")
                    ELSE (IF dug THEN "true" ELSE "false")
             d1 == [digs EXCEPT !.ops[k].dig = "settled",
                                !.digging = IF @ = k THEN 0 ELSE @]
         IN digs' = digSettled(d1, k, res)
    /\ out' = {}
    /\ UNCHANGED <<world, pArea, pOut, timings, nav, watch, engineOnly, antiStuck, recoveryVars>>

\* waitAfterDig, lines 273-276, up to the first await of waitForBlockBreak:
\* the tick count is read once.
WaitAfterDigCall ==
    /\ digs.wait.pc # "polling"
    /\ \E ping \in world.ping :
         LET ticks == getAdaptiveWaitTicks(ping)
         IN digs' = [digs EXCEPT !.wait =
                       [pc |-> IF ticks > 0 THEN "polling" ELSE "false",
                        ping |-> ping, maxTicks |-> ticks, polls |-> 0,
                        empty |-> FALSE]]
    /\ out' = {}
    /\ UNCHANGED <<world, pArea, pOut, timings, nav, watch, engineOnly, antiStuck, recoveryVars>>

\* waitForBlockBreak lines 259-267: a tick passed, the block is looked at.
\* empty: no block there, or air, cave_air or void_air.
WaitTick ==
    /\ digs.wait.pc = "polling"
    /\ \E empty \in world.confirmed :
         LET polls == digs.wait.polls + 1
         IN digs' = [digs EXCEPT !.wait.polls = polls,
                                !.wait.empty = empty,
                                !.wait.pc = IF empty THEN "true"
                                            ELSE IF polls < digs.wait.maxTicks
                                            THEN "polling" ELSE "false"]
    /\ out' = {}
    /\ UNCHANGED <<world, pArea, pOut, timings, nav, watch, engineOnly, antiStuck, recoveryVars>>

PartsInit ==
    /\ timings = NoTimings
    /\ nav = NoNav
    /\ digs = NoDigs
    /\ watch = NoWatch

\* ------------------------------------------- the recovery subsystem on its own

RecoveryStart ==
    /\ state = InitState
    /\ file = NoFile
    /\ runs = [l \in Runs |-> NoRun]
    /\ travel = "none"
    /\ antiStuck = FALSE
    /\ movements = "none"
    /\ resumeDue = TRUE
    /\ stopCalled = FALSE
    /\ pauseCalled = FALSE
    /\ out = {}
    /\ world = RecoveryWorld
    /\ pArea = Mk(Vec3(0, 0, 0), Vec3(0, 0, 0))
    /\ pOut = <<>>
    /\ RecoveryInit
    /\ PartsInit

RecoveryNext ==
    \/ Enable
    \/ Disable
    \/ Reset
    \/ TickMonitor
    \/ StallMonitor
    \/ NavigatorStuckCheck
    \/ \E s \in Slots : LadderLevelDone(s)
    \/ \E s \in Slots : LadderSettled(s)
    \/ \E s \in Slots : PathClearDone(s)
    \/ Advance

SpecRecovery == RecoveryStart /\ [][RecoveryNext]_vars

\* The tick monitor, the recoveries it triggers, and enable() and disable().
SuffocationStart ==
    /\ state = InitState
    /\ file = NoFile
    /\ runs = [l \in Runs |-> NoRun]
    /\ travel = "none"
    /\ antiStuck = FALSE
    /\ movements = "none"
    /\ resumeDue = TRUE
    /\ stopCalled = FALSE
    /\ pauseCalled = FALSE
    /\ out = {}
    /\ world = SuffocationWorld
    /\ pArea = Mk(Vec3(0, 0, 0), Vec3(0, 0, 0))
    /\ pOut = <<>>
    /\ RecoveryInit
    /\ PartsInit

SuffocationNext ==
    \/ Enable
    \/ Disable
    \/ TickMonitor
    \/ \E s \in Slots : LadderLevelDone(s)
    \/ \E s \in Slots : LadderSettled(s)
    \/ Advance

SpecSuffocation == SuffocationStart /\ [][SuffocationNext]_vars

\* Four seconds pass.
AdvanceFar ==
    /\ clock < Epoch + MaxStallWaits * 4000
    /\ clock' = clock + 4000
    /\ UNCHANGED <<recovery, activities, lastTrigger, engineVars, plannerVars>>

\* The stall monitor, the recoveries and clears it starts, and the goals the
\* Navigator gives the pathfinder.
StallStart ==
    /\ state = InitState
    /\ file = NoFile
    /\ runs = [l \in Runs |-> NoRun]
    /\ travel = "none"
    /\ antiStuck = FALSE
    /\ movements = "none"
    /\ resumeDue = TRUE
    /\ stopCalled = FALSE
    /\ pauseCalled = FALSE
    /\ out = {}
    /\ world = StallWorld
    /\ pArea = Mk(Vec3(0, 0, 0), Vec3(0, 0, 0))
    /\ pOut = <<>>
    /\ RecoveryInit
    /\ PartsInit

StallNext ==
    \/ Enable
    \/ Disable
    \/ StallMonitor
    \/ \E s \in Slots : LadderLevelDone(s)
    \/ \E s \in Slots : LadderSettled(s)
    \/ \E s \in Slots : PathClearDone(s)
    \/ AdvanceFar
    \/ \E k \in NavOps : GotoWithTimeout(k, "goTo")
    \/ \E k \in NavOps : GotoSettles(k)

SpecStall == StallStart /\ [][StallNext]_vars

\* The samples of a bot that stood at 0 for still callbacks and then went to
\* and fro between LOOP_RADIUS and 0 for the next swings callbacks.
ToAndFro(still, swings) ==
    [i \in 1..(still + swings) |->
        IF i > still /\ (i - still) % 2 = 1 THEN LOOP_RADIUS ELSE 0]

\* The histories of that kind the stall monitor can hold: no longer than
\* POSITION_HISTORY_SIZE, and no callback on the way found a loop.
LoopHistories ==
    {h \in {ToAndFro(still, swings) : still \in {0, 6, 7, 8, 22, 23}, swings \in 0..7} :
        /\ Len(h) <= POSITION_HISTORY_SIZE
        /\ \A n \in 1..Len(h) : ~loopFound(SubSeq(h, 1, n))}

\* The stall monitor with the history it has after the callbacks of a bot
\* that went to and fro, one every 500 ms since enable() at Epoch, and the
\* recoveries its loop check triggers.
LoopStart ==
    /\ state = InitState
    /\ file = NoFile
    /\ runs = [l \in Runs |-> NoRun]
    /\ travel = "none"
    /\ antiStuck = TRUE
    /\ movements = "none"
    /\ resumeDue = TRUE
    /\ stopCalled = FALSE
    /\ pauseCalled = FALSE
    /\ out = {}
    /\ world = LoopWorld
    /\ pArea = Mk(Vec3(0, 0, 0), Vec3(0, 0, 0))
    /\ pOut = <<>>
    /\ recovery = InitRecovery
    /\ activities = [s \in Slots |-> NoActivity]
    /\ lastTrigger = NoTrigger
    /\ timings = NoTimings
    /\ nav = NoNav
    /\ digs = NoDigs
    /\ \E h \in LoopHistories :
         LET enabled == startStallMonitor(
                          startTickMonitor(slowDownPhysics(NoWatch, 0)),
                          TRUE, 0, Epoch)
             moves == {i \in 1..Len(h) : h[i] # (IF i = 1 THEN 0 ELSE h[i - 1])}
             lastMove == IF moves = {} THEN 0
                         ELSE CHOOSE i \in moves : \A j \in moves : j <= i
         IN /\ clock = Epoch + stuckCheckInterval * Len(h)
            /\ watch = [enabled EXCEPT
                          !.posHistory = h,
                          !.lastMovePos = IF Len(h) = 0 THEN 0 ELSE h[Len(h)],
                          !.lastMoveTime = Epoch + stuckCheckInterval * lastMove]

LoopNext ==
    \/ StallMonitor
    \/ Disable
    \/ Enable
    \/ \E s \in Slots : LadderLevelDone(s)
    \/ \E s \in Slots : LadderSettled(s)
    \/ Advance

SpecLoop == LoopStart /\ [][LoopNext]_vars

\* The safe positions the tick monitor and the engine mark after enable()
\* at Epoch with the bot at 0; a recovery the tick monitor triggers is not
\* followed to its end.
CheckpointStart ==
    /\ state = InitState
    /\ file = NoFile
    /\ runs = [l \in Runs |-> NoRun]
    /\ travel = "none"
    /\ antiStuck = TRUE
    /\ movements = "none"
    /\ resumeDue = TRUE
    /\ stopCalled = FALSE
    /\ pauseCalled = FALSE
    /\ out = {}
    /\ world = CheckpointWorld
    /\ pArea = Mk(Vec3(0, 0, 0), Vec3(0, 0, 0))
    /\ pOut = <<>>
    /\ RecoveryInit
    /\ timings = NoTimings
    /\ nav = NoNav
    /\ digs = NoDigs
    /\ watch = startStallMonitor(startTickMonitor(slowDownPhysics(NoWatch, 0)),
                                 TRUE, 0, Epoch)

CheckpointNext ==
    \/ Reset
    \/ TickMonitor
    \/ MarkSafePosition
    \/ Advance

SpecCheckpoint == CheckpointStart /\ [][CheckpointNext]_vars

\* Every safeDig a routine has begun has resolved.
DigsResolved == \A j \in DigOps : digs.ops[j].kind # "none" => digs.ops[j].settles > 0

\* safeDig lines 1028-1040, called by the routine of a level or by
\* clearBlockingPath (lines 642, 893-1011): the tool is equipped, the timer
\* armed and bot.dig called; the routine awaits the race.
RoutineDigs(s) ==
    /\ activities[s].kind \in {"ladder", "path"}
    /\ activities[s].pc \in {"level", "clearing"}
    /\ activities[s].dug < MaxRoutineDigs
    /\ DigsResolved
    /\ \E k \in DigOps, ping \in world.ping :
         /\ SpentRace(digs.ops[k])
         /\ \A j \in DigOps : j < k => ~SpentRace(digs.ops[j])
         /\ LET others == [j \in DigOps |->
                             IF SpentRace(digs.ops[j]) THEN NoRace ELSE digs.ops[j]]
            IN digs' = [digs EXCEPT
                          !.ops = [others EXCEPT ![k] =
                                     [NoRace EXCEPT !.kind = "safeDig",
                                                    !.timeout = safedigTimeout(ping),
                                                    !.timer = TRUE,
                                                    !.dig = "digging"]],
                          !.digging = k]
    /\ activities' = [activities EXCEPT ![s].dug = @ + 1]
    /\ out' = {}
    /\ UNCHANGED <<recovery, clock, lastTrigger, antiStuck, engineOnly, world, pArea,
                   pOut, timings, nav, watch>>

\* The routine of the level, or the targeted clear, goes on to its end once
\* the safeDig it awaits has resolved.
RoutineGoesOn(s) ==
    /\ DigsResolved
    /\ (LadderLevelDone(s) \/ PathClearDone(s))

\* The recoveries and targeted clears the stall monitor starts, with the
\* safeDig races of their routines.
RoutineStart ==
    /\ state = InitState
    /\ file = NoFile
    /\ runs = [l \in Runs |-> NoRun]
    /\ travel = "none"
    /\ antiStuck = FALSE
    /\ movements = "none"
    /\ resumeDue = TRUE
    /\ stopCalled = FALSE
    /\ pauseCalled = FALSE
    /\ out = {}
    /\ world = [RecoveryWorld EXCEPT !.ping = {200}]
    /\ pArea = Mk(Vec3(0, 0, 0), Vec3(0, 0, 0))
    /\ pOut = <<>>
    /\ RecoveryInit
    /\ PartsInit

RoutineNext ==
    \/ Enable
    \/ Disable
    \/ StallMonitor
    \/ \E s \in Slots : RoutineDigs(s)
    \/ \E k \in DigOps : DigTimer(k)
    \/ \E k \in DigOps : DigSettles(k)
    \/ \E s \in Slots : RoutineGoesOn(s)
    \/ \E s \in Slots : LadderSettled(s)
    \/ Advance

\* The timers fire (the timeout of safeDig, the sleeps of the routines and
\* the sleep before the re-check) and a routine whose awaits have settled
\* runs on; bot.dig itself may never settle.
SpecRoutine ==
    /\ RoutineStart
    /\ [][RoutineNext]_vars
    /\ \A k \in DigOps : WF_vars(DigTimer(k))
    /\ \A s \in Slots : WF_vars(RoutineGoesOn(s))
    /\ \A s \in Slots : WF_vars(LadderSettled(s))

\* enable() and disable() in any order, with both monitors and the
\* recoveries the tick monitor triggers.
PairingStart ==
    /\ state = InitState
    /\ file = NoFile
    /\ runs = [l \in Runs |-> NoRun]
    /\ travel = "none"
    /\ antiStuck = FALSE
    /\ movements = "none"
    /\ resumeDue = TRUE
    /\ stopCalled = FALSE
    /\ pauseCalled = FALSE
    /\ out = {}
    /\ world = PairingWorld
    /\ pArea = Mk(Vec3(0, 0, 0), Vec3(0, 0, 0))
    /\ pOut = <<>>
    /\ RecoveryInit
    /\ PartsInit

PairingNext ==
    \/ Enable
    \/ Disable
    \/ TickMonitor
    \/ StallMonitor
    \/ \E s \in Slots : LadderLevelDone(s)
    \/ \E s \in Slots : LadderSettled(s)

SpecPairing == PairingStart /\ [][PairingNext]_vars

\* The ladder up to the emergency routine while the Navigator has the
\* pathfinder drive the bot.
EmergencyStart ==
    /\ state = InitState
    /\ file = NoFile
    /\ runs = [l \in Runs |-> NoRun]
    /\ travel = "none"
    /\ antiStuck = FALSE
    /\ movements = "none"
    /\ resumeDue = TRUE
    /\ stopCalled = FALSE
    /\ pauseCalled = FALSE
    /\ out = {}
    /\ world = [RecoveryWorld EXCEPT !.ping = {0, 1000}]
    /\ pArea = Mk(Vec3(0, 0, 0), Vec3(0, 0, 0))
    /\ pOut = <<>>
    /\ RecoveryInit
    /\ PartsInit

EmergencyNext ==
    \/ Enable
    \/ StallMonitor
    \/ \E s \in Slots : LadderLevelDone(s)
    \/ \E s \in Slots : LadderSettled(s)
    \/ \E s \in Slots : PathClearDone(s)
    \/ Advance
    \/ \E k \in NavOps : GotoWithTimeout(k, "goTo")
    \/ \E k \in NavOps : PathfinderDrives(k)
    \/ \E k \in NavOps : GotoSettles(k)

SpecEmergency == EmergencyStart /\ [][EmergencyNext]_vars

\* Navigator operations one after the other, with the path clears their
\* stall-kicks ask for.
NavigatorStart ==
    /\ state = InitState
    /\ file = NoFile
    /\ runs = [l \in Runs |-> NoRun]
    /\ travel = "none"
    /\ antiStuck = FALSE
    /\ movements = "none"
    /\ resumeDue = TRUE
    /\ stopCalled = FALSE
    /\ pauseCalled = FALSE
    /\ out = {}
    /\ world = NavigatorWorld
    /\ pArea = Mk(Vec3(0, 0, 0), Vec3(0, 0, 0))
    /\ pOut = <<>>
    /\ RecoveryInit
    /\ PartsInit

NavigatorNext ==
    \/ \E k \in NavOps, kind \in {"goNear", "goToXZ", "goTo"} : GotoWithTimeout(k, kind)
    \/ \E k \in NavOps : PathfinderDrives(k)
    \/ \E k \in NavOps : StuckChecker(k)
    \/ \E k \in NavOps : JumpOff(k)
    \/ \E k \in NavOps : PathTimeout(k)
    \/ \E k \in NavOps : GotoSettles(k)
    \/ NavigatorStop
    \/ \E s \in Slots : PathClearDone(s)

SpecNavigator == NavigatorStart /\ [][NavigatorNext]_vars

\* ------------------------------------------------------------ the engine

Init ==
    /\ state = InitState
    /\ file = NoFile
    /\ runs = [l \in Runs |-> NoRun]
    /\ travel = "none"
    /\ antiStuck = FALSE
    /\ movements = "none"
    /\ resumeDue = TRUE
    /\ stopCalled = FALSE
    /\ pauseCalled = FALSE
    /\ out = {}
    /\ world = AnyWorld
    /\ pArea = Mk(Vec3(0, 0, 0), Vec3(0, 0, 0))
    /\ pOut = <<>>
    /\ RecoveryInit
    /\ PartsInit

\* One resumption of the run loop of invocation l.
RunStep(l) ==
    \/ ResumeSaveYield(l)
    \/ ResumeAutoPauseWait(l)
    \/ ResumeHealEat(l)
    \/ ResumeHealSleep(l)
    \/ ResumePauseWait(l)
    \/ ResumeEat(l)
    \/ ResumeClearOverlap(l)
    \/ ResumeDeposit(l)
    \/ ResumeInvWait(l)
    \/ ResumeNav(l)
    \/ ResumeEquip(l)
    \/ ResumeLook(l)
    \/ ResumeDig(l)
    \/ ResumeConfirm(l)
    \/ ResumeRetrySleep(l)
    \/ ResumeInterDelay(l)

Next ==
    \/ \E l \in DOMAIN runs, area \in EngineAreas : Start(l, area)
    \/ \E l \in DOMAIN runs : ResumeIfNeeded(l)
    \/ Pause
    \/ Resume
    \/ Stop
    \/ GoToBase
    \/ \E arrived \in BOOLEAN : GoToBaseSettled(arrived)
    \/ ProcessRestart
    \/ \E l \in DOMAIN runs : RunStep(l)

Spec == Init /\ [][Next]_vars

\* ------------------------------------------- overlapping start() invocations

InitOverlap ==
    /\ state = InitState
    /\ file = NoFile
    /\ runs = [l \in OverlapRuns |-> NoRun]
    /\ travel = "none"
    /\ antiStuck = FALSE
    /\ movements = "none"
    /\ resumeDue = TRUE
    /\ stopCalled = FALSE
    /\ pauseCalled = FALSE
    /\ out = {}
    /\ world = CalmWorld
    /\ pArea = Mk(Vec3(0, 0, 0), Vec3(0, 0, 0))
    /\ pOut = <<>>
    /\ RecoveryInit
    /\ PartsInit

\* The resumptions that occur in a calm world.
CalmRunStep(l) ==
    \/ ResumeSaveYield(l)
    \/ ResumePauseWait(l)
    \/ ResumeEat(l)
    \/ ResumeClearOverlap(l)
    \/ ResumeNav(l)
    \/ ResumeEquip(l)
    \/ ResumeLook(l)
    \/ ResumeDig(l)
    \/ ResumeConfirm(l)
    \/ ResumeRetrySleep(l)
    \/ ResumeInterDelay(l)

\* start(), resumeIfNeeded(), pause(), resume() and stop() in any order, with
\* the run loops they leave pending, and restarts of the process.
NextOverlap ==
    \/ \E l \in DOMAIN runs, area \in OverlapAreas : Start(l, area)
    \/ \E l \in DOMAIN runs : ResumeIfNeeded(l)
    \/ Pause
    \/ Resume
    \/ Stop
    \/ ProcessRestart
    \/ \E l \in DOMAIN runs : CalmRunStep(l)

SpecOverlap == InitOverlap /\ [][NextOverlap]_vars

\* ------------------------------------- one run with its histories recorded

InitAudit ==
    /\ state = InitState
    /\ file = NoFile
    /\ runs = [l \in Runs |-> NoRun]
    /\ travel = "none"
    /\ antiStuck = FALSE
    /\ movements = "none"
    /\ resumeDue = TRUE
    /\ stopCalled = FALSE
    /\ pauseCalled = FALSE
    /\ out = {}
    /\ world = AuditWorld
    /\ pArea = Mk(Vec3(0, 0, 0), Vec3(0, 0, 0))
    /\ pOut = <<>>
    /\ RecoveryInit
    /\ PartsInit

\* start(), pause(), resume() and stop() in any order around one run loop, in
\* any world.
NextAudit ==
    \/ \E l \in DOMAIN runs, area \in OverlapAreas : Start(l, area)
    \/ Pause
    \/ Resume
    \/ Stop
    \/ \E l \in DOMAIN runs : RunStep(l)

SpecAudit == InitAudit /\ [][NextAudit]_vars

\* ------------------------------------------ one run left to run to its end

\* start(area, startIndex), the first call made to the engine.
StartAt(l, area, startIndex) ==
    /\ runs[l].pc = "none"
    /\ state = InitState
    /\ \E e \in HeadInputs : Commit(l, StartBody(World(l), area, startIndex, e))
    /\ pauseCalled' = FALSE
    /\ stopCalled' = FALSE
    /\ UNCHANGED <<travel, resumeDue, plannerVars, recoveryVars>>

\* The indexes start() is given: any from 0 to one past the region's volume.
StartIndexes(area) == 0..(Len(generateZigzagPositions(normalizeArea(area))) + 1)

InitCompletion ==
    /\ state = InitState
    /\ file = NoFile
    /\ runs = [l \in Runs |-> NoRun]
    /\ travel = "none"
    /\ antiStuck = FALSE
    /\ movements = "none"
    /\ resumeDue = TRUE
    /\ stopCalled = FALSE
    /\ pauseCalled = FALSE
    /\ out = {}
    /\ world = CalmWorld
    /\ pArea = Mk(Vec3(0, 0, 0), Vec3(0, 0, 0))
    /\ pOut = <<>>
    /\ RecoveryInit
    /\ PartsInit

\* One start() and the run loop it leaves pending, in a calm world.
NextCompletion ==
    \/ \E l \in DOMAIN runs, area \in EngineAreas :
         \E startIndex \in StartIndexes(area) : StartAt(l, area, startIndex)
    \/ \E l \in DOMAIN runs : CalmRunStep(l)

\* Every await of the run loop settles: its timers fire, and the operations
\* it awaits resolve, reject or are timed out.
SpecCompletion ==
    /\ InitCompletion
    /\ [][NextCompletion]_vars
    /\ \A l \in Runs : WF_vars(CalmRunStep(l))

\* ------------------------------------------ one run and one travel to base

\* The base is configured (BASE_X, BASE_Z in .env) or it is not.
InitTravel ==
    /\ state = InitState
    /\ file = NoFile
    /\ runs = [l \in Runs |-> NoRun]
    /\ travel = "none"
    /\ antiStuck = FALSE
    /\ movements = "none"
    /\ resumeDue = TRUE
    /\ stopCalled = FALSE
    /\ pauseCalled = FALSE
    /\ out = {}
    /\ world \in {AuditWorld, [AuditWorld EXCEPT !.base = FALSE]}
    /\ pArea = Mk(Vec3(0, 0, 0), Vec3(0, 0, 0))
    /\ pOut = <<>>
    /\ RecoveryInit
    /\ PartsInit

NextTravel ==
    \/ \E l \in DOMAIN runs, area \in OverlapAreas : Start(l, area)
    \/ Pause
    \/ Resume
    \/ Stop
    \/ GoToBase
    \/ \E arrived \in BOOLEAN : GoToBaseSettled(arrived)
    \/ \E l \in DOMAIN runs : RunStep(l)

SpecTravel == InitTravel /\ [][NextTravel]_vars

\* --------------------------------------------- one run under live telemetry

\* PingMonitor.startPingMeasurement lines 176-197: a new median latency.
PingSample(ping) ==
    /\ world' = [world EXCEPT !.ping = {ping},
                              !.delay = {interBlockDelay(ping) > 0}]
    /\ out' = Recorded({"ping:update"}
                       \cup (IF ping > 500 THEN {"ping:high"} ELSE {})
                       \cup (IF ping > 1000 THEN {"ping:critical"} ELSE {}))
    /\ UNCHANGED <<state, file, runs, travel, antiStuck, movements, resumeDue,
                   stopCalled, pauseCalled, pArea, pOut, recoveryVars, partVars>>

\* PingMonitor.startTPSEstimation lines 203-219: a new tick-rate estimate.
TpsEstimate(tps) ==
    /\ world' = [world EXCEPT !.tps = {tps}]
    /\ out' = {}
    /\ UNCHANGED <<state, file, runs, travel, antiStuck, movements, resumeDue,
                   stopCalled, pauseCalled, pArea, pOut, recoveryVars, partVars>>

InitLatency ==
    /\ state = InitState
    /\ file = NoFile
    /\ runs = [l \in Runs |-> NoRun]
    /\ travel = "none"
    /\ antiStuck = FALSE
    /\ movements = "none"
    /\ resumeDue = TRUE
    /\ stopCalled = FALSE
    /\ pauseCalled = FALSE
    /\ out = {}
    /\ world \in LatencyWorlds
    /\ pArea = Mk(Vec3(0, 0, 0), Vec3(0, 0, 0))
    /\ pOut = <<>>
    /\ RecoveryInit
    /\ PartsInit

NextLatency ==
    \/ \E l \in DOMAIN runs, area \in OverlapAreas : Start(l, area)
    \/ Pause
    \/ Resume
    \/ Stop
    \/ \E ping \in Pings : PingSample(ping)
    \/ \E tps \in TickRates : TpsEstimate(tps)
    \/ \E l \in DOMAIN runs : CalmRunStep(l)
    \/ \E l \in DOMAIN runs : ResumeAutoPauseWait(l)

SpecLatency == InitLatency /\ [][NextLatency]_vars

\* ------------------------------------------- the timing policy on its own

\* The getters are read.
ReadTimings ==
    /\ \E ping \in world.ping, tps \in world.tps : timings' = ReadAll(ping, tps)
    /\ out' = {}
    /\ UNCHANGED <<world, pArea, pOut, nav, digs, watch, engineOnly, antiStuck, recoveryVars>>

\* PingMonitor.startPingMeasurement: a new median latency.
TimingPingSample ==
    \E ping \in TimingPings \ world.ping : PingSample(ping)

\* PingMonitor.startTPSEstimation: a new tick-rate estimate.
TimingTpsEstimate ==
    \E tps \in TimingRates \ world.tps : TpsEstimate(tps)

InitTimings ==
    /\ state = InitState
    /\ file = NoFile
    /\ runs = [l \in Runs |-> NoRun]
    /\ travel = "none"
    /\ antiStuck = FALSE
    /\ movements = "none"
    /\ resumeDue = TRUE
    /\ stopCalled = FALSE
    /\ pauseCalled = FALSE
    /\ out = {}
    /\ world = [CalmWorld EXCEPT !.delay = {FALSE}]
    /\ pArea = Mk(Vec3(0, 0, 0), Vec3(0, 0, 0))
    /\ pOut = <<>>
    /\ RecoveryInit
    /\ PartsInit

NextTimings ==
    \/ ReadTimings
    \/ TimingPingSample
    \/ TimingTpsEstimate

SpecTimings == InitTimings /\ [][NextTimings]_vars

\* --------------------------------------------------- dig races on their own

\* Dig races of mineBlock and safeDig one after the other, while the latency
\* changes.
InitDig ==
    /\ state = InitState
    /\ file = NoFile
    /\ runs = [l \in Runs |-> NoRun]
    /\ travel = "none"
    /\ antiStuck = FALSE
    /\ movements = "none"
    /\ resumeDue = TRUE
    /\ stopCalled = FALSE
    /\ pauseCalled = FALSE
    /\ out = {}
    /\ world = [NavigatorWorld EXCEPT !.tps = {20}, !.delay = {TRUE}, !.audit = FALSE]
    /\ pArea = Mk(Vec3(0, 0, 0), Vec3(0, 0, 0))
    /\ pOut = <<>>
    /\ RecoveryInit
    /\ PartsInit

NextDig ==
    \/ \E k \in DigOps, kind \in {"mineBlock", "safeDig"} : DigRace(k, kind)
    \/ \E k \in DigOps : DigTimer(k)
    \/ \E k \in DigOps : DigGraceOver(k)
    \/ \E k \in DigOps : DigSettles(k)
    \/ \E ping \in DigPings : PingSample(ping)

SpecDig == InitDig /\ [][NextDig]_vars

\* The confirmation wait called again and again while the latency changes.
InitWait == InitDig

NextWait ==
    \/ WaitAfterDigCall
    \/ WaitTick
    \/ \E ping \in ConfirmPings : PingSample(ping)

SpecWait == InitWait /\ [][NextWait]_vars

\* ------------------------------------------------ the planner on its own

Coords == 0..MaxCoord

PlannerAreas ==
    { Mk(Vec3(x1, y1, z1), Vec3(x2, y2, z2)) :
        x1 \in Coords, y1 \in Coords, z1 \in Coords,
        x2 \in Coords, y2 \in Coords, z2 \in Coords }

PlannerInit ==
    /\ state = InitState
    /\ file = NoFile
    /\ runs = [l \in Runs |-> NoRun]
    /\ travel = "none"
    /\ antiStuck = FALSE
    /\ movements = "none"
    /\ resumeDue = TRUE
    /\ stopCalled = FALSE
    /\ pauseCalled = FALSE
    /\ out = {}
    /\ world = AnyWorld
    /\ pArea \in PlannerAreas
    /\ pOut = <<>>
    /\ RecoveryInit
    /\ PartsInit

\* mineArea line 411 on the region normalized by start() line 303
Plan ==
    /\ pOut = <<>>
    /\ pOut' = generateZigzagPositions(normalizeArea(pArea))
    /\ UNCHANGED <<pArea, world, engineVars, recoveryVars, partVars>>

PlannerNext == Plan

SpecPlanner == PlannerInit /\ [][PlannerNext]_vars

\* ================================================================ claims

Pending(l) == runs[l].pc # "none"

\* The awaits inside mineBlock's attempt loop: a target is being attempted.
InTarget == {"clear_overlap", "deposit", "inv_wait", "nav", "equip", "look",
             "dig", "confirm", "retry_sleep"}

\* The awaits from equipping the tool to the dig itself.
DigPcs == {"equip", "look", "dig"}

\* C1: after stop() the status is idle and stays idle until the next start()
\* or goToBase() call; no step of the stopped run loop writes another status.
C1_IdleAfterStop == stopCalled => state.status = "idle"

\* C2: once stop() has been called, the run loop that was pending begins no
\* further equip/orient/dig on a target.
C2_NoDigAfterStop ==
    [][stopCalled =>
         \A l \in DOMAIN runs :
            ~(runs[l].pc \notin DigPcs /\ runs'[l].pc \in DigPcs)]_vars

\* C3: at most one excavation run loop is pending at a time, whatever the
\* interleaving of start(), resumeIfNeeded(), pause(), resume() and stop().
C3_SingleRunLoop == Cardinality({l \in DOMAIN runs : Pending(l)}) <= 1

\* The step in which mineBlock returns for the target at index runs[l].i and
\* the loop goes on (or the run finishes); a run that ends in this step with
\* status idle or error was stopped or threw.
TargetHandled(l) ==
    /\ runs[l].pc \in InTarget
    /\ runs'[l].pc \notin InTarget
    /\ runs'[l].pc = "none" => state'.status \notin {"idle", "error"}

\* C4: when the target at index i has been handled, by success, by the target
\* no longer being worth excavating or by three failed attempts, the mined
\* counter becomes i + 1 and the loop moves on to index i + 1.
C4_ForwardProgress ==
    [][\A l \in DOMAIN runs :
         /\ TargetHandled(l) =>
              /\ state'.minedBlocks = runs[l].i + 1
              /\ runs'[l].pc \notin {"inter_delay", "none"} => runs'[l].i = runs[l].i + 1
         /\ (runs[l].pc = "inter_delay" /\ runs'[l].pc \notin {"inter_delay", "none"}) =>
              runs'[l].i = runs[l].i + 1]_vars

\* C4 witness: a target was given up after three failed attempts and the loop
\* is at the next index with the counter advanced.
C4_Witness ==
    \E l \in DOMAIN runs :
        /\ runs[l].pc = "eat"
        /\ runs[l].attempts = maxAttempts
        /\ runs[l].i >= 1
        /\ state.minedBlocks = runs[l].i

\* C5: the attempt loop begins at most 3 iterations for one target; inside an
\* iteration one attempt more than the failed ones has begun, and an iteration
\* that neither returned nor threw has consumed its attempt.
C5_BoundedRetry ==
    \A l \in DOMAIN runs :
        /\ runs[l].iters <= maxAttempts
        /\ runs[l].attempts <= maxAttempts
        /\ runs[l].pc \in InTarget \ {"retry_sleep"} => runs[l].iters = runs[l].attempts + 1
        /\ runs[l].pc = "retry_sleep" => runs[l].iters = runs[l].attempts

\* C5 witness: the third dig of one target has failed.
C5_Witness ==
    \E l \in DOMAIN runs :
        runs[l].pc = "retry_sleep" /\ runs[l].iters = maxAttempts

\* C6: after stop() has been called and the stopped run loop has exited, no
\* persisted progress record exists.
C6_NoRecordAfterStop ==
    (stopCalled /\ \A l \in DOMAIN runs : ~Pending(l)) => file = NoFile

\* What an uninterrupted run over the region attempts at index k.
UninterruptedTarget(area, k) == generateZigzagPositions(area)[k + 1]

\* C7: a run started at index k attempts, at every index i >= k it reaches,
\* the coordinate an uninterrupted run over the same region attempts at i,
\* beginning with index k; a run begun by resumeIfNeeded() takes the region
\* and the index of the persisted record; the record (0,0,0)-(1,0,1) with
\* minedBlocks 2 resumes at (1,0,1).
C7_ResumeInvariant ==
    /\ [](\A l \in DOMAIN runs :
            /\ Pending(l) => runs[l].i >= runs[l].startIndex
            /\ runs[l].pc \in InTarget =>
                 runs[l].pos = UninterruptedTarget(runs[l].area, runs[l].i)
            /\ (/\ runs[l].pc \in InTarget
                /\ runs[l].area = [min |-> Vec3(0, 0, 0), max |-> Vec3(1, 0, 1)]
                /\ runs[l].i = 2) => runs[l].pos = Vec3(1, 0, 1))
    /\ [][\A l \in DOMAIN runs :
            (resumeDue /\ ~resumeDue' /\ ~Pending(l) /\ runs'[l].pc # "none") =>
               /\ runs'[l].startIndex = file.minedBlocks
               /\ runs'[l].i = file.minedBlocks
               /\ runs'[l].area = file.area]_vars

\* C7 witness: a run resumed from a record with minedBlocks 2 attempts its
\* first target, (1,0,1).
C7_Witness ==
    \E l \in DOMAIN runs :
        /\ runs[l].startIndex = 2
        /\ runs[l].i = 2
        /\ runs[l].pc = "dig"
        /\ runs[l].pos = Vec3(1, 0, 1)

\* Every integer point of a normalized region.
Points(area) ==
    { Vec3(x, y, z) : x \in area.min.x..area.max.x,
                      y \in area.min.y..area.max.y,
                      z \in area.min.z..area.max.z }

\* C8: for a normalized region of volume V the planner returns exactly V
\* coordinates, none repeated, every integer point of the region among them
\* and no other point.
C8_PlannerCovers ==
    pOut # <<>> =>
        LET area == normalizeArea(pArea)
        IN /\ Len(pOut) = areaSize(area)
           /\ Len(pOut) = Cardinality(Points(area))
           /\ \A j, k \in 1..Len(pOut) : j # k => pOut[j] # pOut[k]
           /\ { pOut[j] : j \in 1..Len(pOut) } = Points(area)

\* C8 witness: a region of at least 8 points given with unordered corners has
\* been planned.
C8_Witness ==
    /\ Len(pOut) >= 8
    /\ pArea.corner1.x > pArea.corner2.x
    /\ pArea.corner1.z < pArea.corner2.z

Abs(n) == IF n < 0 THEN -n ELSE n

\* C9: the sequence is ordered by descending y, within a layer by ascending z,
\* within a row by x ascending when z - min.z is even and descending when it
\* is odd, in every layer alike; corners (0,0,0)-(1,0,1) give
\* (0,0,0),(1,0,0),(1,0,1),(0,0,1); consecutive coordinates of one layer
\* differ by exactly one unit on exactly one axis.
C9_TraversalOrder ==
    pOut # <<>> =>
        LET area == normalizeArea(pArea)
            n == Len(pOut)
        IN /\ \A j, k \in 1..n :
                j < k =>
                   LET p == pOut[j]
                       q == pOut[k]
                   IN \/ p.y > q.y
                      \/ p.y = q.y /\ p.z < q.z
                      \/ /\ p.y = q.y
                         /\ p.z = q.z
                         /\ IF (p.z - area.min.z) % 2 = 0 THEN p.x < q.x ELSE p.x > q.x
           /\ \A j \in 1..(n - 1) :
                pOut[j].y = pOut[j + 1].y =>
                   /\ Abs(pOut[j].x - pOut[j + 1].x) + Abs(pOut[j].z - pOut[j + 1].z) = 1
           /\ pArea = Mk(Vec3(0, 0, 0), Vec3(1, 0, 1)) =>
                pOut = << Vec3(0, 0, 0), Vec3(1, 0, 0), Vec3(1, 0, 1), Vec3(0, 0, 1) >>

\* C9 witness: a region with two layers, three rows and two columns has been
\* planned.
C9_Witness ==
    /\ pOut # <<>>
    /\ Abs(pArea.corner1.y - pArea.corner2.y) = 1
    /\ Abs(pArea.corner1.z - pArea.corner2.z) = 2
    /\ Abs(pArea.corner1.x - pArea.corner2.x) = 1

\* Some invocation whose run loop is pending and was not stopped.
ActiveRun == \E l \in DOMAIN runs : Pending(l) /\ state.status # "idle"

\* C10: traveling and mining are mutually exclusive: no target is attempted
\* while the status is traveling, goToBase() does not begin traveling while a
\* run loop is active (mining, or suspended in a pause, healing or inventory
\* wait), and start() begins no run while the status is traveling.
C10_TravelExcludesMining ==
    /\ [](state.status = "traveling" => \A l \in DOMAIN runs : runs[l].pc \notin InTarget)
    /\ [][/\ (ActiveRun /\ state.status # "traveling") => state'.status # "traveling"
          /\ state.status = "traveling" =>
               \A l \in DOMAIN runs : Pending(l) \/ runs'[l].pc = "none"]_vars

\* C11: while a pause() called during a run is outstanding (no resume(),
\* stop() or new start() since), the run loop begins no attempt on a new
\* target and no step returns the status to mining; this covers a pause()
\* that arrives during an auto-pause, healing or inventory-full wait.
C11_PauseHonoured ==
    [][(pauseCalled /\ pauseCalled') =>
          /\ \A l \in DOMAIN runs :
                ~(runs[l].pc \notin InTarget /\ runs'[l].pc \in InTarget)
          /\ state'.status = "mining" => state.status = "mining"]_vars

\* The status changes the interface documents.
DocumentedTransitions ==
    { <<"idle", "mining">>, <<"mining", "paused">>, <<"mining", "finished">>,
      <<"mining", "error">>, <<"paused", "mining">>, <<"mining", "idle">>,
      <<"paused", "idle">>, <<"traveling", "idle">>, <<"idle", "traveling">>,
      <<"traveling", "error">> }

\* C12: within the life of one process the status changes only along the
\* documented transitions.  Checked on the calls that write the status once
\* (pause, resume, stop, goToBase and its completion: the steps that leave the
\* run loops where they are); a continuation of the run loop can write it
\* more than once before it suspends again.
C12_DocumentedTransitions ==
    [][ \/ state'.status = state.status
        \/ runs' # runs
        \/ <<state.status, state'.status>> \in DocumentedTransitions
        \/ ProcessRestart ]_vars

\* C13: the status becomes finished only in the step in which a run that was
\* not stopped leaves the last index of its plan; then
\* minedBlocks equals totalBlocks, the volume of the region, and the record is
\* cleared; and while the status is finished no record exists.
C13_NaturalCompletion ==
    /\ [](state.status = "finished" => file = NoFile)
    /\ [][(state'.status = "finished" /\ state.status # "finished") =>
            /\ ~stopCalled
            /\ state'.minedBlocks = state'.totalBlocks
            /\ state'.totalBlocks = areaSize(state'.area)
            /\ file' = NoFile
            /\ \A l \in DOMAIN runs :
                 (Pending(l) /\ runs'[l].pc = "none") =>
                    runs[l].i + 1 = areaSize(runs[l].area)]_vars

\* C14: when a failure escapes the run loop into start()'s catch block, the
\* status becomes error with the failure message and the error event is
\* published if stop() had not been called; if it had, the status stays idle,
\* the error field stays empty and no error event is published.
C14_CancelledVersusFailed ==
    [][("catch" \in out') =>
          IF stopCalled
          THEN /\ state'.status = "idle"
               /\ state'.error = "null"
               /\ "mining:error" \notin out'
          ELSE /\ state'.status = "error"
               /\ state'.error = "failure"
               /\ "mining:error" \in out']_vars

\* C15: a start(region) call made while the status is mining throws
\* 'Already mining' and changes neither the excavation state nor any pending
\* run loop (nor the record, the protection system or the movements).
C15_AlreadyMining ==
    [][\A l \in DOMAIN runs, area \in OverlapAreas :
          (state.status = "mining" /\ Start(l, area)) =>
             /\ "throw Already mining" \in out'
             /\ state' = state
             /\ runs' = runs
             /\ file' = file
             /\ antiStuck' = antiStuck
             /\ movements' = movements]_vars

\* C15 witness: a start() call has just been rejected while a run loop is
\* pending with status mining.
C15_Witness ==
    /\ "throw Already mining" \in out
    /\ state.status = "mining"
    /\ \E l \in DOMAIN runs : runs[l].pc \in InTarget

\* ------------------------------------------------------------------ C16
\* C16: the recovery level is within 0..5 in every reachable state, whatever
\* the triggers, de-escalations, recovery outcomes, enable/disable/reset calls
\* and latencies.
C16_LevelInRange == recovery.recoveryLevel \in 0..MAX_RECOVERY_LEVEL

\* A ladder at the top level is still obstructed when it settles.
C16_Witness ==
    /\ recovery.recoveryLevel = MAX_RECOVERY_LEVEL
    /\ \E s \in Slots : /\ activities[s].kind = "ladder"
                        /\ activities[s].level = MAX_RECOVERY_LEVEL

\* ------------------------------------------------------------------ C17
\* C17: a recovery trigger that arrives less than the recovery cooldown
\* (2000 + L, L the latency read at that trigger) after the last executed
\* trigger is not executed, and a trigger that is not executed leaves the
\* recovery level, the recovery count and the last-recovery time as they were.
C17_RateLimited ==
    \A k \in DOMAIN lastTrigger.calls :
      LET c == lastTrigger.calls[k]
      IN /\ (c.prevExecAt >= 0 /\ c.at - c.prevExecAt < 2000 + c.ping)
               => ~c.executed
         /\ ~c.executed => c.after = c.before

\* A trigger arrived after an executed one, within the cooldown, when no
\* recovery was in progress, and was dropped.
C17_Witness ==
    /\ ~recovery.recovering
    /\ \E k \in DOMAIN lastTrigger.calls :
         LET c == lastTrigger.calls[k]
         IN /\ c.prevExecAt >= 0
            /\ c.at > c.prevExecAt
            /\ c.at - c.prevExecAt < 2000 + c.ping
            /\ ~c.executed

\* ------------------------------------------------------------------ C18
\* C18: at most one recovery activity (a ladder or a path clear) is in
\* progress at any time, and the in-recovery flag is set exactly while one is.
Active == {s \in Slots : activities[s].kind # "none"}

C18_OneRecoveryActivity ==
    /\ Cardinality(Active) <= 1
    /\ recovery.recovering <=> Active # {}

\* A path clear is in progress and the callback that was just run asked for a
\* ladder, which was refused.
C18_Witness ==
    /\ \E s \in Slots : activities[s].kind = "path"
    /\ \E k \in DOMAIN lastTrigger.calls : ~lastTrigger.calls[k].executed

\* ------------------------------------------------------------------ C19
\* The run loop l is in the wait of an auto-pause.
AutoPaused(l) ==
    /\ runs[l].pc = "autopause_wait"
    /\ state.status = "paused"
    /\ state.error = "Auto-paused: bad connection"

\* The run loop l wakes up and reaches the auto-pause check of lines 423-436:
\* after the sleep of a periodic save, or after the delay between two targets
\* when another target is left and no save is due.
AtCheck(l) ==
    \/ ResumeSaveYield(l)
    \/ /\ ResumeInterDelay(l)
       /\ runs[l].i + 1 < areaSize(runs[l].area)
       /\ (runs[l].i + 1) % SAVE_EVERY # 0

\* The auto-pause scenario for the run loop l, `high` the condition under
\* which the run is to pause and `low` the one under which it is to go on:
\* a mining run that reaches the check under `high` becomes paused and
\* publishes paused with reason "high_ping"; while `high` lasts the paused
\* loop does not move; under `low` it goes back to mining; and the mined
\* count is the same from the step that pauses to the step that goes on.
AutoPauseScenario(l, high, low) ==
    /\ (AtCheck(l) /\ state.status = "mining" /\ high)
          => /\ state'.status = "paused"
             /\ "mining:paused high_ping" \in out'
             /\ runs'[l].pc = "autopause_wait"
             /\ state'.minedBlocks = state.minedBlocks
    /\ (AutoPaused(l) /\ high) => runs'[l] = runs[l]
    /\ (AutoPaused(l) /\ low /\ runs'[l] # runs[l])
          => /\ state'.status = "mining"
             /\ runs'[l].pc \notin {"autopause_wait", "none"}
             /\ state'.minedBlocks = state.minedBlocks

\* C19 as stated: with a latency of 1000 ms and a normal tick rate a mining
\* run pauses with reason "high_ping", attempts no target while the latency
\* stays at 1000 ms, goes back to mining once it has dropped, and the mined
\* count is unchanged across the pause.
C19_AutoPauseAt1000 ==
    [][\A l \in DOMAIN runs :
         AutoPauseScenario(l, world.ping = {1000} /\ world.tps = {20},
                              world.ping \subseteq 0..999 /\ world.tps = {20})]_vars

\* C19 amended: the same scenario with a latency above 1000 ms, the run going
\* on once the latency is 1000 ms or less.
C19_AutoPauseAbove1000 ==
    [][\A l \in DOMAIN runs :
         AutoPauseScenario(l, (\A ping \in world.ping : ping > 1000) /\ world.tps = {20},
                              world.ping \subseteq 0..1000 /\ world.tps = {20})]_vars

\* A run that has mined a block is auto-paused and the latency has dropped:
\* the next wake-up of the loop takes it back to mining.
C19_Witness ==
    /\ world.ping = {0}
    /\ world.tps = {20}
    /\ state.minedBlocks > 0
    /\ \E l \in DOMAIN runs : AutoPaused(l)

\* ------------------------------------------------------------------ C20
\* The telemetry says that the latency is above 1000 ms or the tick rate
\* below 5.
BadConnection == \E ping \in world.ping, tps \in world.tps : ping > 1000 \/ tps < 5

\* C20: the auto-pause trigger is true exactly when L > 1000 or T < 5, and
\* each time the run loop consults it the answer is the one for the telemetry
\* of that moment: a mining run at the check pauses exactly when the
\* connection is bad, never pauses otherwise, and a loop in the auto-pause
\* wait leaves it only when the connection is no longer bad.
C20_LiveTrigger ==
    /\ [](\A ping \in world.ping, tps \in world.tps :
            shouldAutoPause(ping, tps) <=> (ping > 1000 \/ tps < 5))
    /\ [][\A l \in DOMAIN runs :
            /\ ("mining:paused high_ping" \in out' /\ runs'[l] # runs[l])
                  => BadConnection
            /\ (AtCheck(l) /\ state.status = "mining")
                  => (BadConnection <=> "mining:paused high_ping" \in out')
            /\ (AutoPaused(l) /\ runs'[l] # runs[l]) => ~BadConnection]_vars

\* The telemetry changed during an auto-pause that a low tick rate began: the
\* tick rate is normal again and the latency is exactly 1000 ms.
C20_Witness ==
    /\ world.ping = {1000}
    /\ world.tps = {20}
    /\ \E l \in DOMAIN runs : AutoPaused(l)

\* ------------------------------------------------------------------ C21
\* What was read respects the documented caps.
WithinCaps ==
    /\ timings.digTimeout <= 30000
    /\ timings.pathfindTimeout <= 30000
    /\ timings.navigationTimeout <= 300000
    /\ timings.safedigTimeout <= 15000
    /\ timings.interBlockDelay <= 200

\* The three timeouts whose formula has whole values for a whole latency
\* equal it below the cap, and the cap is what is read when the formula
\* reaches it.
WholeFormulas ==
    LET L == timings.ping
    IN /\ timings.pathfindTimeout = Min(8000 + 3 * L, 30000)
       /\ timings.navigationTimeout = Min(180000 + 10 * L, 300000)
       /\ timings.safedigTimeout = Min(5000 + 2 * L, 15000)

\* C21 as stated: every timeout is within its cap and, below the cap, equals
\* its formula: (6000 + 2L) * (20 / max(1, T)) for the dig timeout and
\* max(0, L - 50) * 0.4 for the inter-step delay, as exact values.
C21_TimeoutsEqualFormulas ==
    timings.read =>
      LET L == timings.ping
          T == Max(1, timings.tps)
      IN /\ WithinCaps
         /\ WholeFormulas
         /\ timings.digTimeout < 30000
               => timings.digTimeout * T = (6000 + 2 * L) * 20
         /\ timings.interBlockDelay < 200
               => timings.interBlockDelay * 10 = Max(0, L - 50) * 4

\* C21 amended: every timeout is within its cap; the dig timeout and the
\* inter-step delay are their formulas rounded to the nearest millisecond
\* (at most half a millisecond away) or the cap when that is smaller, the
\* other three equal their formulas below the cap; and the dig timeout at
\* L = 0, T = 20 is below the one at L = 500, T = 20.
C21_TimeoutsRounded ==
    /\ timings.read =>
         LET L == timings.ping
             T == Max(1, timings.tps)
             dig == (6000 + 2 * L) * 20
             step == Max(0, L - 50) * 4
         IN /\ WithinCaps
            /\ WholeFormulas
            /\ \/ /\ timings.digTimeout = 30000
                  /\ 2 * dig >= (2 * 30000 - 1) * T
               \/ /\ timings.digTimeout < 30000
                  /\ 2 * timings.digTimeout * T - 2 * dig <= T
                  /\ 2 * dig - 2 * timings.digTimeout * T < T
            /\ \/ /\ timings.interBlockDelay = 200
                  /\ 2 * step >= (2 * 200 - 1) * 10
               \/ /\ timings.interBlockDelay < 200
                  /\ 2 * timings.interBlockDelay * 10 - 2 * step <= 10
                  /\ 2 * step - 2 * timings.interBlockDelay * 10 < 10
    /\ digTimeout(0, 20) < digTimeout(500, 20)

\* The getters were read at a latency and a tick rate for which the dig
\* timeout and the inter-step delay are below their caps and their formulas
\* have no whole value.
C21_Witness ==
    /\ timings.read
    /\ timings.ping = 51
    /\ timings.tps = 7
    /\ timings.digTimeout < 30000
    /\ timings.interBlockDelay = 0

\* ------------------------------------------------------------------ C22
\* C22: when the confirmation wait after a completed dig returns false, the
\* engine records no safe checkpoint, publishes no block-mined event, and
\* goes to the retry of the target with one more attempt consumed.
C22_UnconfirmedDigFails ==
    [][\A l \in DOMAIN runs :
         (runs[l].pc = "confirm" /\ "waitAfterDig false" \in out')
           => /\ "markSafePosition" \notin out'
              /\ "mining:block-mined" \notin out'
              /\ runs'[l].pc = "retry_sleep"
              /\ runs'[l].attempts = runs[l].attempts + 1]_vars

\* ------------------------------------------------------------------ C24
\* C24: goToBase() with no base configured throws the base-not-configured
\* error, and with the status mining or traveling the busy error, the state
\* unchanged in both cases; otherwise the status becomes traveling.  When the
\* navigation settles, the status is idle with no error if stop() was called
\* during the travel; otherwise it is idle with the message cleared on
\* arrival, and error with the navigation message on failure or timeout.
C24_GoToBaseOutcomes ==
    [][/\ (GoToBase /\ ~world.base)
            => /\ "throw Base coordinates not set in .env" \in out'
               /\ state' = state
               /\ travel' = travel
       /\ (GoToBase /\ world.base /\ state.status \in {"mining", "traveling"})
            => /\ "throw Bot is busy" \in out'
               /\ state' = state
               /\ travel' = travel
       /\ (GoToBase /\ world.base /\ state.status \notin {"mining", "traveling"})
            => state'.status = "traveling"
       /\ \A arrived \in BOOLEAN :
            GoToBaseSettled(arrived) =>
              IF travel = "nav stopped"
              THEN state'.status = "idle" /\ state'.error = "null"
              ELSE IF arrived
              THEN state'.status = "idle" /\ state'.error = "null"
              ELSE state'.status = "error" /\ state'.error = "Navigation error"]_vars

C26_SettlesOnce ==
    /\ [](\A k \in NavOps :
            /\ nav.ops[k].settles <= 1
            /\ nav.ops[k].isDone => ~nav.ops[k].timer /\ ~nav.ops[k].checker
            /\ nav.ops[k].timedOut
                 => /\ nav.ops[k].result = "Path timeout"
                    /\ nav.ops[k].solver # "solving")
    /\ [][\A k \in NavOps :
            (nav.ops[k].isDone /\ nav'.ops[k].isDone
               /\ ~(Spent(nav.ops[k]) /\ nav'.ops[k].solver = "none"))
              => /\ nav'.ops[k].result = nav.ops[k].result
                 /\ nav'.ops[k].settles = nav.ops[k].settles
                 /\ nav'.ops[k].jumpOff => nav.ops[k].jumpOff
                 /\ nav'.jump = k => nav.jump = k]_vars

\* The solver's result arrived after the timeout had settled the operation.
C26_Witness ==
    \E k \in NavOps :
      /\ nav.ops[k].timedOut
      /\ nav.ops[k].solver = "settled"
      /\ nav.ops[k].settles = 1

\* What holds of the closure of race k at every moment.
C25_RaceSettled(op, k) ==
    /\ op.settles <= 1
    /\ op.stoppedBy \in {0, k}
    /\ op.timedOut => /\ op.dig # "digging"
                      /\ op.stoppedBy = k
                      /\ ~op.timer
    /\ (op.timedOut /\ op.kind = "mineBlock") =>
          IF op.grace THEN op.result = "none" /\ op.settles = 0
          ELSE op.result = "Dig timeout" /\ op.settles = 1
    /\ (op.timedOut /\ op.kind = "safeDig") => op.result = "false" /\ op.settles = 1
    /\ (op.finished /\ ~op.timedOut) =>
          /\ ~op.timer
          /\ ~op.grace
          /\ op.settles = 1
          /\ op.result \in {"resolved", "dig error", "true", "false"}

\* C25: every dig race settles exactly once.  When the timeout fires first the
\* dig is stopped before any failure is reported; the engine's race reports
\* 'Dig timeout' only when the grace delay is over, and a completion or error
\* of the dig that comes later changes nothing.  When the dig settles first the
\* timer is cancelled, and no timer ever stops the dig of another race.
C25_DigSettlesOnce ==
    /\ [](\A k \in DigOps : C25_RaceSettled(digs.ops[k], k))
    /\ [][\A k \in DigOps :
            (digs.ops[k].result # "none"
             /\ ~(SpentRace(digs.ops[k]) /\ digs'.ops[k].settles = 0))
            => /\ digs'.ops[k].result = digs.ops[k].result
               /\ digs'.ops[k].settles = digs.ops[k].settles
               /\ digs'.ops[k].timedOut = digs.ops[k].timedOut]_vars

\* A race of the engine timed out, reported 'Dig timeout' after the grace
\* delay and then saw its dig settle late, while the next race was won by
\* its dig.
C25_Witness ==
    /\ digs.ops[1].kind = "mineBlock"
    /\ digs.ops[1].timedOut
    /\ digs.ops[1].result = "Dig timeout"
    /\ digs.ops[1].dig = "settled"
    /\ digs.ops[2].result \in {"resolved", "true"}
    /\ ~digs.ops[2].timedOut

\* The number of looks the wait is allowed at latency L.
C27_ConfirmTicks(L) == IF L > 400 THEN 6 ELSE IF L > 200 THEN 4 ELSE IF L > 100 THEN 3 ELSE 2

\* C27: the confirmation wait looks at the block once per tick, at most N times,
\* N being 6, 4, 3 or 2 for a latency above 400, above 200, above 100 or not,
\* the same number as the timing policy's post-dig ticks at every latency; it
\* returns true at the first look that finds the place empty and false after
\* N looks that did not, and never waits more than N ticks.
C27_ConfirmationWaiter ==
    /\ [](/\ \A L \in world.ping \cup ConfirmPings :
              /\ getAdaptiveWaitTicks(L) = C27_ConfirmTicks(L)
              /\ postDigWaitTicks(L) = C27_ConfirmTicks(L)
          /\ digs.wait.pc # "none" =>
              /\ digs.wait.maxTicks = C27_ConfirmTicks(digs.wait.ping)
              /\ digs.wait.polls <= digs.wait.maxTicks
          /\ digs.wait.pc = "polling" =>
              /\ digs.wait.polls < digs.wait.maxTicks
              /\ digs.wait.polls > 0 => ~digs.wait.empty
          /\ digs.wait.pc = "true" => digs.wait.empty /\ digs.wait.polls >= 1
          /\ digs.wait.pc = "false" =>
              ~digs.wait.empty /\ digs.wait.polls = digs.wait.maxTicks)
    /\ [][digs.wait.pc = "polling" =>
            \/ digs'.wait = digs.wait
            \/ /\ digs'.wait.polls = digs.wait.polls + 1
               /\ digs'.wait.maxTicks = digs.wait.maxTicks
               /\ digs'.wait.ping = digs.wait.ping
               /\ digs'.wait.empty => digs'.wait.pc = "true"]_vars

\* A wait begun at a latency of 401 gave up after six looks, and the latency
\* has dropped since.
C27_Witness ==
    /\ digs.wait.pc = "false"
    /\ digs.wait.ping = 401
    /\ digs.wait.polls = 6
    /\ world.ping = {100}

\* A recovery that ran ends in slot s with this step.
RecoveryEnds(s) ==
    /\ activities[s].kind = "ladder"
    /\ activities'[s].kind = "none"

\* What the end of a recovery does, from the level `level`: escalation when
\* the bot is still obstructed or the routine threw, de-escalation, the
\* stuck-tick counter at 0 and one 'safety:unstuck' event when it is clear,
\* and _recovering false in all three cases.
RecheckedFrom(level) ==
    /\ ~recovery'.recovering
    /\ out' \in {{"still stuck"}, {"Recovery error"}, {"safety:unstuck"}}
    /\ out' \in {{"still stuck"}, {"Recovery error"}} =>
          recovery'.recoveryLevel = IF level + 1 < 5 THEN level + 1 ELSE 5
    /\ out' = {"safety:unstuck"} =>
          /\ recovery'.recoveryLevel = IF level - 1 > 0 THEN level - 1 ELSE 0
          /\ recovery'.stuckTicks = 0

\* C28 as stated: after the recovery of any level, the re-check escalates or
\* de-escalates from the level that was executed.
C28_RecheckFromExecutedLevel ==
    [][\A s \in Slots : RecoveryEnds(s) => RecheckedFrom(activities[s].level)]_vars

\* C28, amended: the re-check escalates or de-escalates from the level the
\* register holds when it is made, which is the level executed unless the
\* emergency routine, reset() or disable() has set it to 0 meanwhile; still
\* obstructed or thrown gives min(level+1, 5), clear gives max(level-1, 0),
\* the stuck-tick counter at 0 and one 'safety:unstuck' event, and
\* _recovering is false afterwards in all three cases.
C28_RecheckFromRegister ==
    [][\A s \in Slots : RecoveryEnds(s) => RecheckedFrom(recovery.recoveryLevel)]_vars

\* A recovery has just ended with the bot clear and the level lowered to 2.
C28_Witness ==
    /\ out = {"safety:unstuck"}
    /\ recovery.recoveryLevel = 2
    /\ recovery.stuckTicks = 0
    /\ ~recovery.recovering
    /\ recovery.totalRecoveries >= 2

\* No control is held and the pathfinder has no goal it is solving.
Released(n) ==
    /\ ~n.forward
    /\ n.jump = 0
    /\ \A k \in NavOps : n.ops[k].solver # "solving"

C30_Floor(L) == IF L > 300 THEN 2 ELSE IF L > 150 THEN 1 ELSE 0

\* C30: every recovery that is executed runs at a level not below the floor for
\* the latency read at the trigger (2 above 300, 1 above 150, else 0): a level
\* below the floor is raised to it, a level at or above it is kept, and the
\* level the 'safety:stuck' event carries is the level whose routine runs.
C30_AdaptiveFloor ==
    /\ \A L \in {0, 150, 151, 300, 301, 1000} : minRecoveryLevel(L) = C30_Floor(L)
    /\ \A k \in DOMAIN lastTrigger.calls :
         LET c == lastTrigger.calls[k]
         IN c.executed =>
              /\ c.after[1] >= C30_Floor(c.ping)
              /\ c.after[1] = IF c.before[1] < C30_Floor(c.ping)
                              THEN C30_Floor(c.ping) ELSE c.before[1]
              /\ c.announced = c.after[1]
              /\ \E s \in Slots :
                    /\ activities[s].kind = "ladder"
                    /\ activities[s].pc = "level"
                    /\ activities[s].level = c.announced
              /\ \A s \in Slots :
                    activities[s].kind = "ladder" => activities[s].level = c.announced

\* A trigger at a latency of 1000 found the level at 0 and runs level 2.
C30_Witness ==
    \E k \in DOMAIN lastTrigger.calls :
      LET c == lastTrigger.calls[k]
      IN /\ c.executed
         /\ c.ping = 1000
         /\ c.before[1] = 0
         /\ c.announced = 2
         /\ \E s \in Slots : activities[s].kind = "ladder" /\ activities[s].level = 2

\* The stuck-tick threshold at latency L.
C31_Threshold(L) == IF L > 300 THEN 5 ELSE IF L > 150 THEN 4 ELSE 3

\* What C31 says of the trigger and of the ticks with no overlap before them:
\* the suffocation trigger comes only with no recovery in progress and after
\* as many overlapping ticks in a row as the threshold at the latency read,
\* and a tick without overlap that follows none leaves the level alone.
C31_TriggerAndIdle ==
    /\ "Suffocation" \in out' =>
          /\ ~recovery.recovering
          /\ Len(lastTrigger'.calls) = 1
          /\ watch'.overlapRun >= C31_Threshold(lastTrigger'.calls[1].ping)
          /\ recovery'.stuckTicks >= C31_Threshold(lastTrigger'.calls[1].ping)
    /\ (watch.overlapRun = 0 /\ watch'.overlapRun = 0) =>
          recovery'.recoveryLevel = recovery.recoveryLevel
    /\ recovery'.stuckTicks <= watch'.overlapRun

\* C31 as stated: besides, the first tick without overlap after at least one
\* overlapping tick lowers the level by exactly one (floor 0) and resets the
\* counter.
C31_SuffocationMonitor ==
    [][TickMonitor =>
         /\ C31_TriggerAndIdle
         /\ (watch.overlapRun > 0 /\ watch'.overlapRun = 0) =>
               /\ recovery'.recoveryLevel =
                     IF recovery.recoveryLevel > 0 THEN recovery.recoveryLevel - 1 ELSE 0
               /\ recovery'.stuckTicks = 0]_vars

\* C31, amended: the first tick without overlap resets the counter, and lowers
\* the level by one (floor 0) only when the counter is above 0; the counter
\* is 0 although overlapping ticks came before when a re-check that found the
\* bot clear, enable() or disable() has reset it meanwhile.
C31_SuffocationCounter ==
    [][TickMonitor =>
         /\ C31_TriggerAndIdle
         /\ (watch.overlapRun > 0 /\ watch'.overlapRun = 0) =>
               /\ recovery'.recoveryLevel =
                     IF recovery.stuckTicks > 0 /\ recovery.recoveryLevel > 0
                     THEN recovery.recoveryLevel - 1 ELSE recovery.recoveryLevel
               /\ recovery'.stuckTicks = 0]_vars

\* The fourth overlapping tick in a row, at a latency of 200, has just
\* triggered a recovery that runs.
C31_Witness ==
    /\ "Suffocation" \in out
    /\ watch.overlapRun = 4
    /\ recovery.stuckTicks = 4
    /\ Len(lastTrigger.calls) = 1
    /\ lastTrigger.calls[1].ping = 200
    /\ lastTrigger.calls[1].executed

\* A stall detection as C32 describes it, at a stall callback that ran: the
\* sample it took is within 0.15 of lastMovePos, more than the stall
\* threshold has passed since lastMoveTime, and the pathfinder has a goal.
C32_Detection ==
    /\ watch'.calls = watch.calls + 1
    /\ watch.lastMovePos # -1
    /\ distanceTo(watch'.seen.pushed[Len(watch'.seen.pushed)], watch.lastMovePos) < 2
    /\ \A ping \in world.ping : clock - watch.lastMoveTime > 3000 + 2 * ping
    /\ \E k \in NavOps : nav.ops[k].solver = "solving"

\* C32: the first stall detection of an episode with path-blocking blocks
\* present performs only a targeted clear; a detection after a targeted clear
\* of the same episode triggers the recovery with reason stall; no second
\* targeted clear comes in an episode without a stall trigger in between; a
\* movement above 0.15 ends the episode; without a detection (no goal, a
\* recovery in progress, a movement, too little time) no stall action is
\* taken.
C32_StallEscalation ==
    [][StallMonitor =>
         LET clearing == "Stall: clearing path" \in out'
             stall == "Stall" \in out'
         IN /\ (C32_Detection /\ watch'.seen.blocking /\ watch.clears = 0) =>
                  /\ clearing /\ ~stall
                  /\ \A i \in 1..Len(lastTrigger'.calls) : ~lastTrigger'.calls[i].executed
                  /\ \E s \in Slots : /\ activities[s].kind = "none"
                                      /\ activities'[s].kind = "path"
            /\ (C32_Detection /\ watch.clears > 0) =>
                  /\ stall /\ ~clearing
                  /\ Len(lastTrigger'.calls) >= 1
                  /\ watch'.clears = 0
            /\ (C32_Detection /\ ~watch'.seen.blocking) => stall /\ ~clearing
            /\ ~C32_Detection => ~clearing /\ ~stall
            /\ recovery.recovering => recovery' = recovery /\ activities' = activities
            /\ (watch'.calls = watch.calls + 1 /\ watch.lastMovePos # -1
                /\ distanceTo(watch'.seen.pushed[Len(watch'.seen.pushed)],
                              watch.lastMovePos) >= 2) =>
                  watch'.clears = 0 /\ ~recovery'.blockClearAttempted
            /\ watch'.clears <= 1]_vars

\* A detection with blocking blocks present has triggered the recovery that
\* runs: the targeted clear of this episode had been made before.
C32_Witness ==
    /\ "Stall" \in out
    /\ watch.seen.blocking
    /\ watch.clears = 0
    /\ Len(lastTrigger.calls) = 1
    /\ lastTrigger.calls[1].executed
    /\ recovery.recovering

\* The occasions on which the history h comes back within LOOP_RADIUS of its
\* last sample: a sample within it that follows one outside.
C33_Returns(h) ==
    Cardinality({i \in 2..Len(h) :
                   /\ distanceTo(h[i], h[Len(h)]) < 25
                   /\ distanceTo(h[i - 1], h[Len(h)]) >= 25})

\* What C33 says besides the condition of the trigger, at a stall callback:
\* the history never holds more than 30 samples, the oldest sample is the one
\* dropped, and a detection leaves the history empty and calls the trigger.
C33_Window ==
    LET h == watch.posHistory
        p == watch'.seen.pushed
    IN /\ Len(watch'.posHistory) <= 30
       /\ watch'.calls = watch.calls + 1 =>
             /\ Len(p) = IF Len(h) = 30 THEN 30 ELSE Len(h) + 1
             /\ SubSeq(p, 1, Len(p) - 1) = IF Len(h) = 30 THEN Tail(h) ELSE h
             /\ "Loop detected" \in out' =>
                   /\ watch'.posHistory = <<>>
                   /\ Len(lastTrigger'.calls) >= 1
             /\ "Loop detected" \notin out' => watch'.posHistory = p
       /\ watch'.calls = watch.calls =>
             /\ "Loop detected" \notin out'
             /\ watch'.posHistory = h

\* C33 as stated: besides, the loop trigger comes exactly when the window
\* shows at least 4 returns.
C33_LoopExactly ==
    [][StallMonitor =>
         /\ C33_Window
         /\ watch'.calls = watch.calls + 1 =>
               ("Loop detected" \in out' <=> C33_Returns(watch'.seen.pushed) >= 4)]_vars

\* C33, amended: the loop trigger comes exactly when the window holds at least
\* 15 samples and shows at least 4 returns.
C33_LoopFromHalfWindow ==
    [][StallMonitor =>
         /\ C33_Window
         /\ watch'.calls = watch.calls + 1 =>
               ("Loop detected" \in out' <=>
                   /\ Len(watch'.seen.pushed) >= 15
                   /\ C33_Returns(watch'.seen.pushed) >= 4)]_vars

\* A callback has found a loop in a full window of 30 samples, emptied the
\* history and triggered the recovery that runs.
C33_Witness ==
    /\ "Loop detected" \in out
    /\ Len(watch.seen.pushed) = 30
    /\ C33_Returns(watch.seen.pushed) >= 4
    /\ watch.posHistory = <<>>
    /\ Len(lastTrigger.calls) = 1
    /\ lastTrigger.calls[1].executed

\* What a markSafePosition() call with the bot at watch'.candidate is to do
\* with the list of safe positions, by C34; a step without a call leaves the
\* candidate and the list as they are.
C34_Marked ==
    LET old == watch.safePositions
        new == watch'.safePositions
        pos == watch'.candidate
    IN IF pos = -1 THEN new = old
       ELSE IF Len(old) > 0 /\ distanceTo(pos, old[Len(old)]) < 10 THEN new = old
       ELSE IF Len(old) < 15 THEN new = Append(old, pos)
       ELSE new = Append(Tail(old), pos)

\* C34: the list of safe positions holds at most 15 entries, each at least 1
\* unit from the entry before it; a markSafePosition() call, from the tick
\* monitor or from the engine, appends the bot's position and drops the
\* oldest entry above 15, so the list is the most recently accepted ones in
\* order, and leaves the list unchanged when the position is closer than 1
\* unit to the latest entry.  Only reset() changes the list otherwise.
C34_SafePositions ==
    /\ [](/\ Len(watch.safePositions) <= 15
          /\ \A i \in 2..Len(watch.safePositions) :
               distanceTo(watch.safePositions[i], watch.safePositions[i - 1]) >= 10)
    /\ [][~Reset => C34_Marked]_vars

\* The list is full, its oldest entry has been dropped for the position just
\* accepted, and the tick monitor made the call.
C34_Witness ==
    /\ Len(watch.safePositions) = 15
    /\ watch.candidate = 10
    /\ watch.safePositions[15] = 10
    /\ watch.safePositions[1] = 10
    /\ watch.lastSafeSave = clock
    /\ clock > Epoch

\* The targets invocation l has fully handled: those before index i, and the
\* one at i once the loop waits out the inter-block delay after it.
C35_Handled(l) == runs[l].i + (IF runs[l].pc = "inter_delay" THEN 1 ELSE 0)

\* C35: while a run is pending, a persisted record holds the run's normalized
\* region and a minedBlocks that is not larger than the number of targets
\* the run has fully handled.
C35_CrashConsistent ==
    \A l \in DOMAIN runs :
        (runs[l].pc # "none" /\ file # NoFile) =>
            /\ file.area = [min |-> runs[l].area.min, max |-> runs[l].area.max]
            /\ file.minedBlocks <= C35_Handled(l)

C37_RecoveryEnds ==
    /\ [](recovery.recovering => \E s \in Slots : activities[s].kind # "none")
    /\ recovery.recovering ~> ~recovery.recovering

\* A targeted clear waits for a safeDig whose dig hangs: the timer has fired
\* and resolved the race, bot.dig has not settled, and the flag is set.
C37_Witness ==
    /\ recovery.recovering
    /\ \E s \in Slots : activities[s].kind = "path" /\ activities[s].dug = 1
    /\ \E k \in DigOps : /\ digs.ops[k].kind = "safeDig"
                         /\ digs.ops[k].timedOut
                         /\ digs.ops[k].dig = "aborted"
                         /\ digs.ops[k].result = "false"

\* C38: in a step that is no start() call (and no restart of the process)
\* minedBlocks stays or grows by one; while an invocation is pending the
\* counter lies between its startIndex and totalBlocks; a progress event
\* comes with the counter one above what it was (the value of the previous
\* progress event, or startIndex) and with totalBlocks the region's volume.
C38_MinedCounter ==
    /\ [](\A l \in DOMAIN runs :
            runs[l].pc # "none" =>
                /\ runs[l].startIndex <= state.minedBlocks
                /\ state.minedBlocks <= state.totalBlocks)
    /\ [][("mining:started" \notin out' /\ state' # InitState) =>
            /\ state'.minedBlocks \in {state.minedBlocks, state.minedBlocks + 1}
            /\ "mining:progress" \in out' =>
                  /\ state'.minedBlocks = state.minedBlocks + 1
                  /\ state'.totalBlocks = Len(generateZigzagPositions(state'.area))]_vars

\* C39: while the loop of a start() or the navigation of a goToBase() is
\* pending and stop() has not been called since the last start(), the
\* recovery subsystem is enabled; with no loop and no navigation pending it
\* is disabled.
C39_RecoveryCoverage ==
    /\ (((\E l \in DOMAIN runs : runs[l].pc # "none") \/ travel = "nav")
        /\ ~stopCalled) => antiStuck
    /\ ((\A l \in DOMAIN runs : runs[l].pc = "none") /\ travel = "none") => ~antiStuck

\* What C40 says of the listeners and of the speed: one tick listener and one
\* stall timer are registered while the subsystem is enabled, none while it
\* is disabled, and the speed while disabled is the original one.
C40_Paired ==
    /\ antiStuck => /\ watch.tickListeners = 1 /\ watch.stallTimers = 1
                    /\ watch.playerSpeed \in {(1000 * 80) \div 100, (1000 * 45) \div 100}
    /\ ~antiStuck => /\ watch.tickListeners = 0 /\ watch.stallTimers = 0
                     /\ watch.playerSpeed = 1000

\* C40 as stated: besides, every disable() call leaves the recovery level,
\* the stuck-tick counter and the position history at their initial values.
C40_EnableDisablePairing ==
    /\ []C40_Paired
    /\ [][Disable => /\ recovery'.recoveryLevel = 0
                     /\ recovery'.stuckTicks = 0
                     /\ watch'.posHistory = <<>>]_vars

\* What does hold of disable(): a call made while the subsystem is enabled
\* resets the three; a call made while it is disabled changes nothing, and the
\* level it finds may have been raised by a recovery that was pending at the
\* disable() before.
C40_DisableWhileEnabled ==
    /\ []C40_Paired
    /\ [][Disable => IF antiStuck
                     THEN /\ recovery'.recoveryLevel = 0
                          /\ recovery'.stuckTicks = 0
                          /\ watch'.posHistory = <<>>
                     ELSE /\ recovery' = recovery
                          /\ watch' = watch]_vars

\* The subsystem has been disabled with two stuck ticks counted and three
\* samples in the history, after it was enabled at latency 500.
C40_Witness ==
    /\ ~antiStuck
    /\ watch.playerSpeed = 1000
    /\ watch.tickListeners = 0
    /\ watch.stallTimers = 0
    /\ watch.overlapRun = 2
    /\ watch.calls = 3
    /\ watch.posHistory = <<>>
    /\ recovery.stuckTicks = 0
    /\ recovery.recoveryLevel = 0

====
